---- MODULE Spec2Model ----
(***************************************************************************)
(* A state-machine model of the rustfs file service                        *)
(* (packages/rustfs/src/main.rs): the metadata table, the object store,    *)
(* the multi-step ingest pipeline, the extraction-state API, tombstones,   *)
(* the read endpoints and link issuance.                                   *)
(*                                                                         *)
(* Conventions.                                                            *)
(*  - Byte strings are sequences over 1..2.  Sha256Hex is modelled as a    *)
(*    collision-free digest: an injective positional encoding of the byte  *)
(*    sequence into a number (the "hex string").                           *)
(*  - SQL NULL / Option::None is Null for strings and NoTime for           *)
(*    timestamps.                                                          *)
(*  - resp is the HTTP response produced by the latest step (NoResp if     *)
(*    that step produced none); audit_tail holds the lines that step       *)
(*    appended to the audit log; tmp_left holds the temp files that step   *)
(*    left behind in <data_dir>/tmp.                                       *)
(***************************************************************************)
EXTENDS Integers, Sequences, FiniteSets, TLC

\* ------------------------------------------------------------------ bounds
MaxTime == 1
MaxAttempt == 2
MaxChunks == 9

\* --------------------------------------------------------------- sentinels
Null == "<null>"
NoTime == 0 - 1
NoId == 1 - 1
NoInt == 0 - 1

\* ------------------------------------------------------------ small inputs
RECURSIVE Sha256Hex(_)
Sha256Hex(bytes) ==
    IF bytes = <<>> THEN 1
    ELSE Sha256Hex(SubSeq(bytes, 1, Len(bytes) - 1)) * 3 + bytes[Len(bytes)]

Trim(s) ==
    CASE s = "  " -> ""
      [] s = " t2 " -> "t2"
      [] OTHER -> s

ToLower(s) ==
    CASE s = "Reader" -> "reader"
      [] s = "WRITER" -> "writer"
      [] OTHER -> s

FilePart(name, ctype, bytes) == [file_name |-> name, content_type |-> ctype, data |-> bytes]

Multipart(hint, sid, src, parts) ==
    [tenant_id |-> hint, session_id |-> sid, source |-> src, files |-> parts]

BodyNone == Multipart(Null, Null, Null, <<>>)
BodyA == Multipart(Null, "s1", "cli", << FilePart("a.txt", "text/plain", <<1>>) >>)
BodyB == Multipart(" t2 ", "  ", Null, << FilePart(Null, Null, <<1, 2>>) >>)
BodyAB ==
    Multipart(Null, Null, Null,
              << FilePart("b.txt", Null, <<1>>), FilePart("c.txt", Null, <<2>>) >>)

RECURSIVE Concat(_)
Concat(parts) ==
    IF parts = <<>> THEN <<>> ELSE parts[1].data \o Concat(Tail(parts))

FileIdOf(body) == Sha256Hex(Concat(body.files))

\* No encrypted download is being streamed.  pc is the decrypt worker's
\* position, left the reads that still return bytes, chan the items in the
\* channel, rx whether the response body still holds the receiver, bad
\* whether the worker's closure ends in an error, pos the reads that have
\* returned bytes, body the items the response body has taken so far.
NoStream ==
    [path |-> << >>, pc |-> "idle", left |-> 0, chan |-> << >>, rx |-> FALSE,
     bad |-> FALSE, pos |-> 0, body |-> << >>]

\* ------------------------------------------------------------ configuration
ApiKeyTable ==
    [ k1 |-> [tenant_id |-> "t1", role |-> "WRITER"],
      k2 |-> [tenant_id |-> "t2", role |-> Null],
      k3 |-> [tenant_id |-> "t1", role |-> "Reader"] ]

HeaderKeys == {"k1", "k2", "k3", "  "}

SigningKey == "sk"

VARIABLES
    require_api_key,   \* AppState.require_api_key
    master_key,        \* AppState.master_key.is_some()
    signing_key,       \* AppState.signing_key (Null when not configured)
    audit_log_ok,      \* the audit log is configured and every write to it succeeds
    now,               \* the wall clock read by now_ms()
    files,             \* the rows of table files
    objects,           \* the files under <data_dir>/objects: path -> blob
    ing,               \* the ingest handlers in flight
    resp,              \* response produced by the latest step
    audit_tail,        \* audit lines appended by the latest step
    tmp_left,          \* temp files abandoned by the latest step
    stream             \* the encrypted download being streamed

vars == << require_api_key, master_key, signing_key, audit_log_ok, now, files,
           objects, ing, resp, audit_tail, tmp_left, stream >>

config == << require_api_key, master_key, signing_key, audit_log_ok >>

\* ------------------------------------------------------------------- errors
StatusCode(kind) ==
    CASE kind = "ok" -> 200
      [] kind = "Unauthorized" -> 401
      [] kind = "Forbidden" -> 403
      [] kind = "InvalidRequest" -> 400
      [] kind = "NotFound" -> 404
      [] OTHER -> 500

\* --------------------------------------------------------------------- auth
NormalizeRole(role) ==
    LET r == ToLower(Trim(IF role = Null THEN "admin" ELSE role))
    IN  IF r \in {"reader", "writer", "admin"} THEN r ELSE "admin"

KeyIdFromRaw(raw_key) == << "sha8", raw_key >>

AuthOk(t, r, k) == [ok |-> TRUE, err |-> "ok", tenant_id |-> t, role |-> r, key_id |-> k]
AuthErr(e) == [ok |-> FALSE, err |-> e, tenant_id |-> Null, role |-> Null, key_id |-> <<>>]

AuthFromHeaders_Hint(x_api_key, tenant_hint) ==
    LET key == IF x_api_key = Null THEN "" ELSE Trim(x_api_key)
    IN  IF key = "" \/ key \notin DOMAIN ApiKeyTable
        THEN AuthErr("Unauthorized")
        ELSE AuthOk(IF tenant_hint # Null /\ Trim(tenant_hint) # ""
                    THEN Trim(tenant_hint) ELSE ApiKeyTable[key].tenant_id,
                    NormalizeRole(ApiKeyTable[key].role),
                    KeyIdFromRaw(key))

\* auth_from_headers, lines 222-256
AuthFromHeaders(x_api_key, tenant_hint) ==
    IF ~require_api_key
    THEN IF tenant_hint # Null /\ Trim(tenant_hint) # ""
         THEN AuthOk(Trim(tenant_hint), "admin", <<"dev">>)
         ELSE AuthOk("default", "admin", <<"dev">>)
    ELSE LET key == IF x_api_key = Null THEN "" ELSE Trim(x_api_key)
         IN  IF key = "" \/ key \notin DOMAIN ApiKeyTable
             THEN AuthErr("Unauthorized")
             ELSE AuthOk(ApiKeyTable[key].tenant_id,
                         NormalizeRole(ApiKeyTable[key].role),
                         KeyIdFromRaw(key))

AssertCanWrite_Any(auth) == auth.role \in {"reader", "writer", "admin"}

\* assert_can_read, assert_can_write: lines 368-380
AssertCanRead(auth) == auth.role \in {"reader", "writer", "admin"}
AssertCanWrite(auth) == auth.role \in {"writer", "admin"}

\* ---------------------------------------------------------------- responses
\* op, tenant_id, file_id and req record the request the response answers;
\* status is the AppError kind ("ok" on success) and data the response body.
Response(op, status, tenant, fid, req, data) ==
    [op |-> op, status |-> status, tenant_id |-> tenant, file_id |-> fid,
     req |-> req, data |-> data]

NoResp == Response("none", "none", Null, NoId, <<>>, <<>>)

\* append_audit, lines 315-344: what one call may append.  The call returns
\* nothing to its caller; when the path is unset, or create_dir_all,
\* to_string, open or write_all fails, it returns having appended nothing.
AppendAudit(action, tenant, key_id, fid, extra) ==
    { << [ts_ms |-> now, action |-> action, tenant_id |-> tenant,
          key_id |-> key_id, file_id |-> fid, extra |-> extra] >> }
       \cup (IF audit_log_ok THEN {} ELSE { << >> })

\* ------------------------------------------------------------- object store
PlainPath(tenant, fid) == << "objects", tenant, fid, "" >>
AgePath(tenant, fid) == << "objects", tenant, fid, ".age" >>

PlainBlob(bytes) == [age |-> FALSE, data |-> bytes, whole |-> TRUE]
AgeBlob(bytes, whole) == [age |-> TRUE, data |-> bytes, whole |-> whole]

Put(fs, path, blob) ==
    [p \in (DOMAIN fs) \cup {path} |-> IF p = path THEN blob ELSE fs[p]]

Remove(fs, path) == [p \in (DOMAIN fs) \ {path} |-> fs[p]]

\* ----------------------------------------------------------- metadata store
\* WHERE tenant_id=?1 AND file_id=?2 AND deleted_at_ms IS NULL
LiveRows(tenant, fid) ==
    { r \in files : r.tenant_id = tenant /\ r.file_id = fid /\ r.deleted_at_ms = NoTime }

\* file_id TEXT PRIMARY KEY
PrimaryKeyFree(fid) == \A r \in files : r.file_id # fid

DedupRows_Deleted(tenant, fid) ==
    { r \in files : r.tenant_id = tenant /\ r.file_id = fid /\ r.deleted_at_ms # NoTime }

\* the SELECT of the dedup lookup, lines 488-507
DedupRows(tenant, fid) == LiveRows(tenant, fid)

Update_Replace(targets, set) ==
    { IF r \in targets THEN [set[r] EXCEPT !.session_id = Null, !.source = Null] ELSE r :
         r \in files }

\* UPDATE files SET <the assignments set[r]> WHERE <r in targets>
Update(targets, set) == { IF r \in targets THEN set[r] ELSE r : r \in files }

ToJson_Null(value) == "null"

\* serde_json::to_string and serde_json::from_str
ToJson(value) == IF value = "a1" THEN "\"a1\"" ELSE "null"
FromJson(text) == IF text = "\"a1\"" THEN "a1" ELSE Null

\* --------------------------------------------------------- ingest pipeline
Slots == {1, 2}

IdleSlot ==
    [pc |-> "idle", tenant_id |-> Null, key_id |-> <<>>, file_id |-> NoId,
     sha256 |-> NoId, size |-> 0, created_at_ms |-> NoTime, tmp |-> <<>>,
     session_id |-> Null, source |-> Null, filename |-> Null, mime |-> Null,
     input |-> <<>>, raced |-> FALSE, extract_updated_at_ms |-> NoTime,
     parts |-> <<>>]

InFlight == { i \in Slots : ing[i].pc # "idle" }

EmptyToNull(s) == IF s = Null \/ Trim(s) = "" THEN Null ELSE Trim(s)

\* One `file` field of the multipart loop: a fresh temp file receives the
\* field's bytes while the request-wide hasher and byte counter run on.
StreamFile(st, part) ==
    [sha |-> st.sha \o part.data,
     size |-> st.size + Len(part.data),
     temps |-> Append(st.temps, part.data),
     tmp_path |-> Len(st.temps) + 1,
     filename |-> part.file_name,
     mime |-> part.content_type]

RECURSIVE StreamFields(_, _)
StreamFields(st, parts) ==
    IF parts = <<>> THEN st
    ELSE StreamFields(StreamFile(st, Head(parts)), Tail(parts))

StreamStart ==
    [sha |-> <<>>, size |-> 0, temps |-> <<>>, tmp_path |-> 0,
     filename |-> Null, mime |-> Null]

\* temp files other than the one tmp_path names
Abandoned(st) ==
    IF st.tmp_path = 0 THEN st.temps ELSE SubSeq(st.temps, 1, st.tmp_path - 1)

SetSlot(i, slot) == ing' = [ing EXCEPT ![i] = slot]

Quiet ==
    /\ resp' = NoResp
    /\ audit_tail' = << >>
    /\ tmp_left' = << >>

\* ingest, lines 387-483: the multipart loop, auth, the missing-file check,
\* the digest and the clock read.
IngestRecv(i, x_api_key, body) ==
    /\ ing[i].pc = "idle"
    /\ LET st == StreamFields(StreamStart, body.files)
           auth == AuthFromHeaders(x_api_key, body.tenant_id)
           fail(kind) ==
               /\ resp' = Response("ingest", kind, auth.tenant_id, NoId, body.files, <<>>)
               /\ tmp_left' = st.temps
               /\ audit_tail' = << >>
               /\ UNCHANGED ing
       IN  /\ IF ~auth.ok THEN fail(auth.err)
              ELSE IF ~AssertCanWrite(auth) THEN fail("Forbidden")
              ELSE IF st.tmp_path = 0 THEN fail("InvalidRequest")
              ELSE /\ SetSlot(i, [pc |-> "lookup",
                                  tenant_id |-> auth.tenant_id,
                                  key_id |-> auth.key_id,
                                  file_id |-> Sha256Hex(st.sha),
                                  sha256 |-> Sha256Hex(st.sha),
                                  size |-> st.size,
                                  created_at_ms |-> now,
                                  tmp |-> << st.temps[st.tmp_path] >>,
                                  session_id |-> EmptyToNull(body.session_id),
                                  source |-> EmptyToNull(body.source),
                                  filename |-> IF st.filename = Null THEN "file"
                                               ELSE st.filename,
                                  mime |-> st.mime,
                                  input |-> <<>>,
                                  raced |-> FALSE,
                                  extract_updated_at_ms |-> NoTime,
                                  parts |-> body.files])
                   /\ resp' = NoResp
                   /\ audit_tail' = << >>
                   /\ tmp_left' = Abandoned(st)
    /\ UNCHANGED << config, stream, now, files, objects >>

IngestFail_Audited(i, kind) ==
    /\ resp' = Response("ingest", kind, ing[i].tenant_id, ing[i].file_id,
                        ing[i].parts, <<>>)
    /\ audit_tail' \in AppendAudit("ingest", ing[i].tenant_id, ing[i].key_id,
                                    ing[i].file_id, [error |-> kind])
    /\ tmp_left' = ing[i].tmp
    /\ SetSlot(i, IdleSlot)

\* an error return of ingest after the multipart loop (`?`, lines 485-608)
IngestFail(i, kind) ==
    /\ resp' = Response("ingest", kind, ing[i].tenant_id, ing[i].file_id,
                        ing[i].parts, <<>>)
    /\ audit_tail' = << >>
    /\ tmp_left' = ing[i].tmp
    /\ SetSlot(i, IdleSlot)

IngestResponse(fid, sha, size, encrypted) ==
    [ok |-> TRUE, file_id |-> fid, sha256 |-> sha, size |-> size, encrypted |-> encrypted]

\* ingest, lines 485-536: the dedup lookup and the dedup-hit return.
IngestLookup(i) ==
    /\ ing[i].pc = "lookup"
    /\ LET existing == DedupRows(ing[i].tenant_id, ing[i].file_id)
       IN  IF existing # {}
           THEN \E r \in existing :
                  /\ resp' = Response("ingest", "ok", ing[i].tenant_id, ing[i].file_id,
                                      ing[i].parts,
                                      IngestResponse(r.file_id, r.sha256, r.size, r.encrypted))
                  /\ audit_tail' \in AppendAudit("ingest", ing[i].tenant_id, ing[i].key_id,
                                               r.file_id,
                                               [dedup |-> TRUE, size |-> r.size,
                                                encrypted |-> r.encrypted])
                  /\ tmp_left' = << >>
                  /\ SetSlot(i, IdleSlot)
           ELSE /\ SetSlot(i, [ing[i] EXCEPT !.pc = "publish"])
                /\ Quiet
    /\ UNCHANGED << config, stream, now, files, objects >>

\* ingest, lines 539-541 and 563-565: the rename of the temp file.
IngestPublish(i) ==
    /\ ing[i].pc = "publish"
    /\ objects' = Put(objects, PlainPath(ing[i].tenant_id, ing[i].file_id),
                      PlainBlob(ing[i].tmp[1]))
    /\ SetSlot(i, IF master_key
                  THEN [ing[i] EXCEPT !.pc = "encrypt_open", !.tmp = <<>>]
                  ELSE [ing[i] EXCEPT !.pc = "insert", !.tmp = <<>>,
                                      !.extract_updated_at_ms = now])
    /\ Quiet
    /\ UNCHANGED << config, stream, now, files >>

SamePath(i, j) ==
    /\ ing[i].tenant_id = ing[j].tenant_id
    /\ ing[i].file_id = ing[j].file_id

\* the other encrypt workers that hold the same .age file open for writing
Writers(i) ==
    { j \in Slots \ {i} :
         ing[j].pc \in {"encrypt_copy", "detached_encrypt_copy"} /\ SamePath(i, j) }

\* ingest, lines 547-548: the worker opens the plaintext and creates
\* (truncating) the .age file.
IngestEncryptOpen(i) ==
    /\ ing[i].pc = "encrypt_open"
    /\ LET plain == PlainPath(ing[i].tenant_id, ing[i].file_id)
       IN  IF plain \notin DOMAIN objects
           THEN /\ IngestFail(i, "Io")
                /\ UNCHANGED objects
           ELSE /\ objects' = Put(objects, AgePath(ing[i].tenant_id, ing[i].file_id),
                                  AgeBlob(<<>>, FALSE))
                /\ ing' = [j \in Slots |->
                             IF j = i
                             THEN [ing[i] EXCEPT !.pc = "encrypt_copy",
                                                 !.input = << objects[plain].data >>,
                                                 !.raced = (Writers(i) # {})]
                             ELSE IF j \in Writers(i)
                                  THEN [ing[j] EXCEPT !.raced = TRUE]
                                  ELSE ing[j]]
                /\ Quiet
    /\ UNCHANGED << config, stream, now, files >>

\* ingest, lines 549-556: the worker writes the container.  Two workers
\* writing the same file at once is a data race on its bytes: the outcome is
\* either worker's whole container or a mixture no key decrypts.
IngestEncryptCopy(i) ==
    /\ ing[i].pc = "encrypt_copy"
    /\ \E whole \in (IF ing[i].raced THEN BOOLEAN ELSE {TRUE}) :
          objects' = Put(objects, AgePath(ing[i].tenant_id, ing[i].file_id),
                         IF whole THEN AgeBlob(ing[i].input[1], TRUE)
                         ELSE AgeBlob(<<>>, FALSE))
    /\ ing' = [j \in Slots |->
                 IF j = i
                 THEN [ing[i] EXCEPT !.pc = "remove_plain", !.input = <<>>, !.raced = FALSE]
                 ELSE IF j \in Writers(i)
                      THEN [ing[j] EXCEPT !.raced = TRUE]
                      ELSE ing[j]]
    /\ Quiet
    /\ UNCHANGED << config, stream, now, files >>

\* ingest, line 562: the plaintext is removed.
IngestRemovePlain(i) ==
    /\ ing[i].pc = "remove_plain"
    /\ LET plain == PlainPath(ing[i].tenant_id, ing[i].file_id)
       IN  IF plain \notin DOMAIN objects
           THEN /\ IngestFail(i, "Io")
                /\ UNCHANGED objects
           ELSE /\ objects' = Remove(objects, plain)
                /\ SetSlot(i, [ing[i] EXCEPT !.pc = "insert",
                                             !.extract_updated_at_ms = now])
                /\ Quiet
    /\ UNCHANGED << config, stream, now, files >>

StoragePath(tenant, fid, encrypted) ==
    IF encrypted THEN AgePath(tenant, fid) ELSE PlainPath(tenant, fid)

NewRow(slot) ==
    [rowid |-> Cardinality(files) + 1,
     file_id |-> slot.file_id,
     tenant_id |-> slot.tenant_id,
     session_id |-> slot.session_id,
     filename |-> slot.filename,
     mime |-> slot.mime,
     size |-> slot.size,
     sha256 |-> slot.sha256,
     created_at_ms |-> slot.created_at_ms,
     source |-> slot.source,
     encrypted |-> master_key,
     storage_path |-> StoragePath(slot.tenant_id, slot.file_id, master_key),
     deleted_at_ms |-> NoTime,
     extract_status |-> "pending",
     extract_updated_at_ms |-> slot.extract_updated_at_ms,
     extract_attempt |-> 0,
     extract_error |-> Null,
     annotations_json |-> Null]

InsertAllowed_NoKey(fid) == TRUE

\* The INSERT succeeds iff no row, live or tombstoned, of any tenant holds
\* the file_id: file_id is the table's PRIMARY KEY.
InsertAllowed(fid) == PrimaryKeyFree(fid)

\* ingest, lines 584-635: the INSERT, the audit line and the response.
IngestInsert(i) ==
    /\ ing[i].pc = "insert"
    /\ IF ~InsertAllowed(ing[i].file_id)
       THEN /\ IngestFail(i, "Db")
            /\ UNCHANGED files
       ELSE /\ files' = files \cup { NewRow(ing[i]) }
            /\ resp' = Response("ingest", "ok", ing[i].tenant_id, ing[i].file_id,
                                ing[i].parts,
                                IngestResponse(ing[i].file_id, ing[i].sha256,
                                               ing[i].size, master_key))
            /\ audit_tail' \in AppendAudit("ingest", ing[i].tenant_id, ing[i].key_id,
                                         ing[i].file_id,
                                         [dedup |-> FALSE, size |-> ing[i].size,
                                          encrypted |-> master_key])
            /\ tmp_left' = << >>
            /\ SetSlot(i, IdleSlot)
    /\ UNCHANGED << config, stream, now, objects >>

Init ==
    /\ require_api_key = TRUE
    /\ master_key \in BOOLEAN
    /\ signing_key = SigningKey
    /\ audit_log_ok = TRUE
    /\ now = 0
    /\ files = {}
    /\ objects = << >>
    /\ ing = [i \in Slots |-> IdleSlot]
    /\ resp = NoResp
    /\ audit_tail = << >>
    /\ tmp_left = << >>
    /\ stream = NoStream

\* the service started with RUSTFS_REQUIRE_API_KEY off
InitOpen ==
    /\ require_api_key = FALSE
    /\ master_key \in BOOLEAN
    /\ signing_key = SigningKey
    /\ audit_log_ok = TRUE
    /\ now = 0
    /\ files = {}
    /\ objects = << >>
    /\ ing = [i \in Slots |-> IdleSlot]
    /\ resp = NoResp
    /\ audit_tail = << >>
    /\ tmp_left = << >>
    /\ stream = NoStream

Tick ==
    /\ now < MaxTime
    /\ now' = now + 1
    /\ resp' = NoResp
    /\ audit_tail' = << >>
    /\ tmp_left' = << >>
    /\ UNCHANGED << config, stream, files, objects, ing >>

\* ------------------------------------------------------------- tombstone
TombstoneRows_Again(tenant, fid) ==
    { r \in files : r.tenant_id = tenant /\ r.file_id = fid }

TombstoneRows_AnyTenant(tenant, fid) ==
    { r \in files : r.file_id = fid /\ r.deleted_at_ms = NoTime }

\* the WHERE clause of the tombstone UPDATE, line 1384
TombstoneRows(tenant, fid) == LiveRows(tenant, fid)

Tombstone_AuditFails(x_api_key, fid) ==
    /\ LET auth == AuthFromHeaders(x_api_key, Null)
           fail(kind) ==
               /\ resp' = Response("tombstone", kind, auth.tenant_id, fid, <<>>, <<>>)
               /\ audit_tail' = << >>
               /\ UNCHANGED files
           targets == TombstoneRows(auth.tenant_id, fid)
       IN  IF ~auth.ok THEN fail(auth.err)
           ELSE IF ~AssertCanWrite(auth) THEN fail("Forbidden")
           ELSE IF fid = NoId THEN fail("InvalidRequest")
           ELSE /\ files' = Update(targets, [r \in targets |-> [r EXCEPT !.deleted_at_ms = now]])
                /\ audit_tail' \in AppendAudit("tombstone", auth.tenant_id, auth.key_id, fid,
                                                [tombstoned |-> Cardinality(targets) > 0])
                /\ resp' = Response("tombstone",
                                    IF audit_tail' = << >> THEN "Io" ELSE "ok",
                                    auth.tenant_id, fid, <<>>,
                                    [ok |-> TRUE, file_id |-> fid,
                                     tombstoned |-> Cardinality(targets) > 0])
    /\ tmp_left' = << >>
    /\ UNCHANGED << config, stream, now, objects, ing >>

\* tombstone, lines 1365-1414
Tombstone(x_api_key, fid) ==
    /\ LET auth == AuthFromHeaders(x_api_key, Null)
           fail(kind) ==
               /\ resp' = Response("tombstone", kind, auth.tenant_id, fid, <<>>, <<>>)
               /\ audit_tail' = << >>
               /\ UNCHANGED files
           targets == TombstoneRows(auth.tenant_id, fid)
       IN  IF ~auth.ok THEN fail(auth.err)
           ELSE IF ~AssertCanWrite(auth) THEN fail("Forbidden")
           ELSE IF fid = NoId THEN fail("InvalidRequest")
           ELSE /\ files' = Update(targets, [r \in targets |-> [r EXCEPT !.deleted_at_ms = now]])
                /\ resp' = Response("tombstone", "ok", auth.tenant_id, fid, <<>>,
                                    [ok |-> TRUE, file_id |-> fid,
                                     tombstoned |-> Cardinality(targets) > 0])
                /\ audit_tail' \in AppendAudit("tombstone", auth.tenant_id, auth.key_id, fid,
                                             [tombstoned |-> Cardinality(targets) > 0])
    /\ tmp_left' = << >>
    /\ UNCHANGED << config, stream, now, objects, ing >>

\* ------------------------------------------------------ extraction-state API
ExtractStatusRows_WithDeleted(tenant, fid) ==
    { r \in files : r.tenant_id = tenant /\ r.file_id = fid }

\* the WHERE clause of the UPDATE of set_extract_status, line 971
ExtractStatusRows(tenant, fid) == LiveRows(tenant, fid)

AnnotationsRows(tenant, fid) == LiveRows(tenant, fid)

\* COALESCE(extract_attempt, 0) + 1
NextAttempt_First(r) == 1

\* COALESCE(extract_attempt, 0) + 1, line 970
NextAttempt(r) == (IF r.extract_attempt = NoTime THEN 0 ELSE r.extract_attempt) + 1

\* set_extract_status, lines 939-1006
SetExtractStatus(x_api_key, fid, status_in, error_in) ==
    /\ LET auth == AuthFromHeaders(x_api_key, Null)
           status == Trim(status_in)
           error == IF error_in = Null THEN "" ELSE error_in
           fail(kind) ==
               /\ resp' = Response("extract_status", kind, auth.tenant_id, fid, <<>>, <<>>)
               /\ audit_tail' = << >>
               /\ UNCHANGED files
           targets == ExtractStatusRows(auth.tenant_id, fid)
       IN  IF ~auth.ok THEN fail(auth.err)
           ELSE IF ~AssertCanWrite(auth) THEN fail("Forbidden")
           ELSE IF fid = NoId THEN fail("InvalidRequest")
           ELSE IF status = "" THEN fail("InvalidRequest")
           ELSE IF targets = {} THEN fail("NotFound")
           ELSE /\ \A r \in targets : r.extract_attempt < MaxAttempt
                /\ files' = Update(targets,
                                   [r \in targets |-> [r EXCEPT !.extract_status = status,
                                                        !.extract_updated_at_ms = now,
                                                        !.extract_attempt = NextAttempt(r),
                                                        !.extract_error = error]])
                /\ resp' = Response("extract_status", "ok", auth.tenant_id, fid, <<>>,
                                    [ok |-> TRUE, file_id |-> fid, status |-> status])
                /\ audit_tail' \in AppendAudit("extract_status", auth.tenant_id, auth.key_id,
                                             fid, [status |-> status,
                                                   has_error |-> error # ""])
    /\ tmp_left' = << >>
    /\ UNCHANGED << config, stream, now, objects, ing >>

\* upsert_annotations, lines 879-937
UpsertAnnotations(x_api_key, fid, annotations, source) ==
    /\ LET auth == AuthFromHeaders(x_api_key, Null)
           fail(kind) ==
               /\ resp' = Response("annotations", kind, auth.tenant_id, fid, <<>>, <<>>)
               /\ audit_tail' = << >>
               /\ UNCHANGED files
           targets == AnnotationsRows(auth.tenant_id, fid)
       IN  IF ~auth.ok THEN fail(auth.err)
           ELSE IF ~AssertCanWrite(auth) THEN fail("Forbidden")
           ELSE IF fid = NoId THEN fail("InvalidRequest")
           ELSE IF targets = {} THEN fail("NotFound")
           ELSE /\ files' = Update(targets,
                                   [r \in targets |-> [r EXCEPT !.annotations_json = ToJson(annotations),
                                                        !.extract_updated_at_ms = now]])
                /\ resp' = Response("annotations", "ok", auth.tenant_id, fid, <<>>,
                                    [ok |-> TRUE, file_id |-> fid, updated_at_ms |-> now])
                /\ audit_tail' \in AppendAudit("annotations_upsert", auth.tenant_id,
                                             auth.key_id, fid,
                                             [source |-> IF source = Null THEN "unknown"
                                                         ELSE source])
    /\ tmp_left' = << >>
    /\ UNCHANGED << config, stream, now, objects, ing >>

\* ---------------------------------------------------------- read endpoints
DefaultSearchLimit == 50
DefaultPendingLimit == 25
MinLimit == 1
MaxLimit == 200

Clamp_NoCeiling(x, lo, hi) == IF x < lo THEN lo ELSE x

\* Ord::clamp
Clamp(x, lo, hi) == IF x < lo THEN lo ELSE IF x > hi THEN hi ELSE x

FileMeta(r) ==
    [file_id |-> r.file_id, tenant_id |-> r.tenant_id, session_id |-> r.session_id,
     filename |-> r.filename, mime |-> r.mime, size |-> r.size, sha256 |-> r.sha256,
     created_at_ms |-> r.created_at_ms, source |-> r.source, encrypted |-> r.encrypted,
     extract_status |-> r.extract_status,
     extract_updated_at_ms |-> r.extract_updated_at_ms,
     extract_attempt |-> r.extract_attempt, extract_error |-> r.extract_error,
     annotations |-> FromJson(r.annotations_json)]

\* a filter the handler drops when it is absent or blank
Given(param) == param # Null /\ Trim(param) # ""

SearchQuery(sid, mime, status, limit) ==
    [session_id |-> sid, mime |-> mime, extract_status |-> status, limit |-> limit,
     q |-> Null]

\* the same query with the q parameter set
WithText(query, text) == [query EXCEPT !.q = text]

\* A text as the sequence of its characters.
Chars(text) ==
    CASE text = "a.txt" -> << "a", ".", "t", "x", "t" >>
      [] text = "file" -> << "f", "i", "l", "e" >>
      [] text = "txt" -> << "t", "x", "t" >>
      [] text = "TXT" -> << "T", "X", "T" >>
      [] text = "a_t" -> << "a", "_", "t" >>
      [] text = "4" -> << "4" >>
      [] text = "  " -> << " ", " " >>
      [] OTHER -> << text >>

\* the characters of a digest
RECURSIVE HexChars(_)
HexChars(n) ==
    LET digit(d) == << "0", "1", "2", "3", "4", "5", "6", "7", "8", "9" >>[d + 1]
    IN  IF n < 10 THEN << digit(n) >>
        ELSE HexChars(n \div 10) \o << digit(n % 10) >>

\* SQLite folds the case of ASCII letters before LIKE compares them
FoldCase(c) ==
    CASE c = "A" -> "a"
      [] c = "T" -> "t"
      [] c = "X" -> "x"
      [] OTHER -> c

\* SQLite's `text LIKE pattern`: "%" stands for any run of characters, "_"
\* for any one character, and letters match whatever their case
RECURSIVE Like(_, _)
Like(text, pattern) ==
    IF pattern = << >> THEN text = << >>
    ELSE IF Head(pattern) = "%"
    THEN Like(text, Tail(pattern)) \/ (text # << >> /\ Like(Tail(text), pattern))
    ELSE /\ text # << >>
         /\ Head(pattern) = "_" \/ FoldCase(Head(pattern)) = FoldCase(Head(text))
         /\ Like(Tail(text), Tail(pattern))

\* format!("%{}%", text), line 669
LikePattern(text) == << "%" >> \o Chars(text) \o << "%" >>

\* the WHERE clause search builds, lines 653-677
SearchRows(tenant, q) ==
    { r \in files :
         /\ r.tenant_id = tenant
         /\ r.deleted_at_ms = NoTime
         /\ Given(q.session_id) => r.session_id = q.session_id
         /\ Given(q.mime) => r.mime = q.mime
         /\ Given(q.q) => \/ Like(Chars(r.filename), LikePattern(q.q))
                          \/ Like(HexChars(r.file_id), LikePattern(q.q))
                          \/ Like(HexChars(r.sha256), LikePattern(q.q))
         /\ Given(q.extract_status) => r.extract_status = q.extract_status }

PendingRows_AnyStatus(tenant) ==
    { r \in files : r.tenant_id = tenant /\ r.deleted_at_ms = NoTime }

\* the WHERE clause of pending_extract, line 837
PendingRows(tenant) ==
    { r \in files :
         /\ r.tenant_id = tenant
         /\ r.deleted_at_ms = NoTime
         /\ r.extract_status \in {Null, "pending"} }

\* ORDER BY created_at_ms: every order of the rows that agrees with the
\* key; rows with equal keys come in any order.
Desc == "DESC"
Asc == "ASC"

Orderings(rows, dir) ==
    { s \in [1 .. Cardinality(rows) -> rows] :
         /\ \A i, j \in DOMAIN s : i # j => s[i] # s[j]
         /\ \A i, j \in DOMAIN s :
               i < j => IF dir = Desc
                        THEN s[i].created_at_ms >= s[j].created_at_ms
                        ELSE s[i].created_at_ms <= s[j].created_at_ms }

\* LIMIT n, then one FileMeta per row
Take(s, n) == [i \in 1 .. (IF Len(s) < n THEN Len(s) ELSE n) |-> FileMeta(s[i])]

\* search, lines 637-717
Search(x_api_key, tenant_hint, q) ==
    /\ LET auth == AuthFromHeaders(x_api_key, tenant_hint)
           limit == Clamp(IF q.limit = NoInt THEN DefaultSearchLimit ELSE q.limit,
                          MinLimit, MaxLimit)
       IN  IF ~auth.ok
           THEN resp' = Response("search", auth.err, auth.tenant_id, NoId, q, <<>>)
           ELSE IF ~AssertCanRead(auth)
           THEN resp' = Response("search", "Forbidden", auth.tenant_id, NoId, q, <<>>)
           ELSE \E s \in Orderings(SearchRows(auth.tenant_id, q), Desc) :
                   resp' = Response("search", "ok", auth.tenant_id, NoId, q,
                                    [ok |-> TRUE, items |-> Take(s, limit)])
    /\ audit_tail' = << >>
    /\ tmp_left' = << >>
    /\ UNCHANGED << config, stream, now, files, objects, ing >>

\* pending_extract, lines 821-877
PendingExtract(x_api_key, tenant_hint, limit_in) ==
    /\ LET auth == AuthFromHeaders(x_api_key, tenant_hint)
           limit == Clamp(IF limit_in = NoInt THEN DefaultPendingLimit ELSE limit_in,
                          MinLimit, MaxLimit)
       IN  IF ~auth.ok
           THEN resp' = Response("pending_extract", auth.err, auth.tenant_id, NoId,
                                 limit_in, <<>>)
           ELSE IF ~AssertCanRead(auth)
           THEN resp' = Response("pending_extract", "Forbidden", auth.tenant_id, NoId,
                                 limit_in, <<>>)
           ELSE \E s \in Orderings(PendingRows(auth.tenant_id), Asc) :
                   resp' = Response("pending_extract", "ok", auth.tenant_id, NoId,
                                    limit_in, [ok |-> TRUE, items |-> Take(s, limit)])
    /\ audit_tail' = << >>
    /\ tmp_left' = << >>
    /\ UNCHANGED << config, stream, now, files, objects, ing >>

MetaRows_WithDeleted(tenant, fid) ==
    { r \in files : r.tenant_id = tenant /\ r.file_id = fid }

\* the WHERE clause of meta's SELECT, line 780
MetaRows(tenant, fid) == LiveRows(tenant, fid)

\* meta, lines 763-819
Meta(x_api_key, fid) ==
    /\ LET auth == AuthFromHeaders(x_api_key, Null)
           reply(kind, data) == resp' = Response("meta", kind, auth.tenant_id, fid, <<>>, data)
           rows == MetaRows(auth.tenant_id, fid)
       IN  IF ~auth.ok THEN reply(auth.err, <<>>)
           ELSE IF ~AssertCanRead(auth) THEN reply("Forbidden", <<>>)
           ELSE IF fid = NoId THEN reply("InvalidRequest", <<>>)
           ELSE IF rows = {} THEN reply("NotFound", <<>>)
           ELSE \E r \in rows : reply("ok", FileMeta(r))
    /\ audit_tail' = << >>
    /\ tmp_left' = << >>
    /\ UNCHANGED << config, stream, now, files, objects, ing >>

\* ---------------------------------------------------------------- download
DownloadRows(tenant, fid) == LiveRows(tenant, fid)

\* the bytes of a blob as stored
Stored(blob) == IF blob.age THEN << "age", blob.data, blob.whole >> ELSE blob.data

\* The streaming decryptor: the plaintext of a whole container, an I/O
\* error for anything else.
Decrypt(blob) ==
    IF blob.age /\ blob.whole
    THEN [body |-> blob.data, io_error |-> FALSE]
    ELSE [body |-> <<>>, io_error |-> TRUE]

StreamRow_NoCheck(tenant, fid, r, op, path) ==
    LET reply(kind, data) == Response(op, kind, tenant, fid, <<>>, data)
    IN  IF path \notin DOMAIN objects THEN reply("Io", <<>>)
        ELSE IF ~r.encrypted
        THEN reply("ok", [filename |-> r.filename, content_type |-> r.mime,
                          body |-> Stored(objects[path]), io_error |-> FALSE])
        ELSE IF ~master_key THEN reply("Crypto", <<>>)
        ELSE reply("ok", [filename |-> r.filename, content_type |-> r.mime,
                          body |-> Decrypt(objects[path]).body,
                          io_error |-> Decrypt(objects[path]).io_error])

\* download, lines 1053-1111: the body streamed for row r
StreamRow(tenant, fid, r, op, path) ==
    LET reply(kind, data) == Response(op, kind, tenant, fid, <<>>, data)
    IN  IF path \notin DOMAIN objects THEN reply("NotFound", <<>>)
        ELSE IF ~r.encrypted
        THEN reply("ok", [filename |-> r.filename, content_type |-> r.mime,
                          body |-> Stored(objects[path]), io_error |-> FALSE])
        ELSE IF ~master_key THEN reply("Crypto", <<>>)
        ELSE reply("ok", [filename |-> r.filename, content_type |-> r.mime,
                          body |-> Decrypt(objects[path]).body,
                          io_error |-> Decrypt(objects[path]).io_error])

DownloadResponse(tenant, fid, op) ==
    LET rows == DownloadRows(tenant, fid)
    IN  IF rows = {}
        THEN { Response(op, "NotFound", tenant, fid, <<>>, <<>>) }
        ELSE { StreamRow(tenant, fid, r, op, r.storage_path) : r \in rows }

\* download, lines 1008-1112
Download(x_api_key, fid) ==
    /\ LET auth == AuthFromHeaders(x_api_key, Null)
           reply(kind) == resp' = Response("download", kind, auth.tenant_id, fid, <<>>, <<>>)
       IN  IF ~auth.ok THEN reply(auth.err)
           ELSE IF ~AssertCanRead(auth) THEN reply("Forbidden")
           ELSE IF fid = NoId THEN reply("InvalidRequest")
           ELSE resp' \in DownloadResponse(auth.tenant_id, fid, "download")
    /\ audit_tail' = << >>
    /\ tmp_left' = << >>
    /\ UNCHANGED << config, stream, now, files, objects, ing >>

\* ------------------------------------------------------- streaming decrypt
\* tokio::sync::mpsc::channel(8), line 1082
ChannelCapacity == 8

\* download, lines 1008-1082 and 1110-1111: the handler of a download of an
\* encrypted record makes the channel, starts the decrypt worker and
\* answers 200 with the receiving end as the body.
DownloadStart(x_api_key, fid) ==
    /\ stream.pc = "idle"
    /\ LET auth == AuthFromHeaders(x_api_key, Null)
       IN  /\ auth.ok
           /\ AssertCanRead(auth)
           /\ fid # NoId
           /\ master_key
           /\ \E r \in DownloadRows(auth.tenant_id, fid) :
                 /\ r.encrypted
                 /\ r.storage_path \in DOMAIN objects
                 /\ resp' = StreamRow(auth.tenant_id, fid, r, "download", r.storage_path)
                 /\ stream' = [path |-> r.storage_path, pc |-> "open", left |-> 0,
                               chan |-> << >>, rx |-> TRUE, bad |-> FALSE, pos |-> 0,
                               body |-> << >>]
    /\ audit_tail' = << >>
    /\ tmp_left' = << >>
    /\ UNCHANGED << config, now, files, objects, ing >>

StreamStep(next) ==
    /\ stream' = next
    /\ resp' = NoResp
    /\ audit_tail' = << >>
    /\ tmp_left' = << >>
    /\ UNCHANGED << config, now, files, objects, ing >>

\* the items of the channel: Ok(Bytes) holding the k-th chunk of the
\* plaintext, and Err(e)
OkChunk(k) == << "Ok", k >>
ErrItem == << "Err" >>

\* lines 1085-1091: the worker opens the file and sets up the decryptor; a
\* file that is gone or a container whose header does not parse is an
\* error.  A plaintext of any length comes in some number of reads; a
\* container that is not whole fails at one of them, and so may any read of
\* the disk.
WorkerOpen ==
    /\ stream.pc = "open"
    /\ IF stream.path \notin DOMAIN objects
       THEN StreamStep([stream EXCEPT !.pc = "fail", !.bad = TRUE])
       ELSE \/ /\ ~objects[stream.path].whole
               /\ StreamStep([stream EXCEPT !.pc = "fail", !.bad = TRUE])
            \/ \E n \in 0 .. MaxChunks,
                  bad \in (IF objects[stream.path].whole THEN BOOLEAN ELSE {TRUE}) :
                  StreamStep([stream EXCEPT !.pc = "read", !.left = n, !.bad = bad])

\* lines 1095-1098: one reader.read; an error leaves the closure through
\* `?`, 0 bytes end the loop, and the sender is dropped when the worker
\* returns.
WorkerRead ==
    /\ stream.pc = "read"
    /\ IF stream.left = 0
       THEN StreamStep([stream EXCEPT !.pc = IF stream.bad THEN "fail" ELSE "done"])
       ELSE StreamStep([stream EXCEPT !.pc = "send", !.left = @ - 1, !.pos = @ + 1])

WorkerSend_Unbounded ==
    /\ stream.pc = "send"
    /\ IF ~stream.rx
       THEN StreamStep([stream EXCEPT !.pc = "done"])
       ELSE StreamStep([stream EXCEPT !.pc = "read",
                                      !.chan = Append(@, OkChunk(stream.pos))])

WorkerSend_Waits ==
    /\ stream.pc = "send"
    /\ stream.rx
    /\ Len(stream.chan) < ChannelCapacity
    /\ StreamStep([stream EXCEPT !.pc = "read", !.chan = Append(@, OkChunk(stream.pos))])

\* lines 1099-1101: tx.blocking_send of the chunk just read.  It returns an
\* error when the receiver is gone, and otherwise waits until the channel
\* has room.
WorkerSend ==
    /\ stream.pc = "send"
    /\ IF ~stream.rx
       THEN StreamStep([stream EXCEPT !.pc = "done"])
       ELSE /\ Len(stream.chan) < ChannelCapacity
            /\ StreamStep([stream EXCEPT !.pc = "read",
                                         !.chan = Append(@, OkChunk(stream.pos))])

WorkerFail_Silent ==
    /\ stream.pc = "fail"
    /\ StreamStep([stream EXCEPT !.pc = "done"])

\* lines 1105-1107: the error of the worker is sent as the last item
WorkerFail ==
    /\ stream.pc = "fail"
    /\ IF ~stream.rx
       THEN StreamStep([stream EXCEPT !.pc = "done"])
       ELSE /\ Len(stream.chan) < ChannelCapacity
            /\ StreamStep([stream EXCEPT !.pc = "done", !.chan = Append(@, ErrItem)])

\* line 1110: the response body takes the next item off the channel
BodyRecv ==
    /\ stream.rx
    /\ stream.chan # << >>
    /\ StreamStep([stream EXCEPT !.chan = Tail(@), !.body = Append(@, Head(stream.chan))])

\* the client goes away: the body, and with it the receiver and the items
\* still in the channel, is dropped
ClientGone ==
    /\ stream.rx
    /\ StreamStep([stream EXCEPT !.rx = FALSE, !.chan = << >>])

\* the worker has returned and the body is read to the end or dropped
StreamEnd ==
    /\ stream.pc = "done"
    /\ stream.chan = << >>
    /\ StreamStep(NoStream)

\* -------------------------------------------------------------- signed links
DefaultTtl == 300
MinTtl == 30
MaxTtl == 3600
MsPerSecond == 1000

B64(x) == << "b64", x >>
HmacSha256(key, msg) == << "hmac", key, msg >>

TokenPayload(tenant, fid, exp) == [tenant_id |-> tenant, file_id |-> fid, exp_ms |-> exp]

\* sign_token, lines 1123-1133
SignToken(key, payload) ==
    [payload_b64 |-> B64(payload), sep |-> ".",
     sig_b64 |-> B64(HmacSha256(key, B64(payload)))]

\* One bit of one character of a token changed.  `part` is where the
\* character stands; `class` is what it became: another character of the
\* Base64 alphabet ("alnum"), a "." ("dot"), or anything else ("other").
FlipBit(token, part, class) ==
    CASE part = "payload" -> [token EXCEPT !.payload_b64 = << class, @[2] >>]
      [] part = "sig"     -> [token EXCEPT !.sig_b64 = << class, @[2] >>]
      [] part = "sep"     -> [token EXCEPT !.sep = class]

\* token.split('.').collect().len()
PartsLen(token) ==
    1 + (IF token.sep = "." THEN 1 ELSE 0)
      + (IF token.payload_b64[1] = "dot" THEN 1 ELSE 0)
      + (IF token.sig_b64[1] = "dot" THEN 1 ELSE 0)

\* URL_SAFE_NO_PAD.decode: the encoded bytes, other bytes when a character
\* was replaced by another one of the alphabet, an error otherwise
B64Decode(text) ==
    IF text[1] = "b64" THEN [ok |-> TRUE, bytes |-> text[2]]
    ELSE IF text[1] = "alnum"
    THEN [ok |-> TRUE, bytes |-> << "garbled", text[2][2], text[2][3] >>]
    ELSE [ok |-> FALSE, bytes |-> << >>]

VerifyExpired_Late(exp_ms, now_ms) == exp_ms < now_ms

\* verify_token, line 1157: the token is rejected when exp_ms <= now
VerifyExpired(exp_ms, now_ms) == exp_ms <= now_ms

\* verify_token, lines 1135-1162
VerifyToken(key, token, now_ms) ==
    LET reject(kind) == [ok |-> FALSE, err |-> kind, payload |-> << >>]
        sig == B64Decode(token.sig_b64)
        payload == token.payload_b64[2]
    IN  IF PartsLen(token) # 2 THEN reject("InvalidRequest")
        ELSE IF ~sig.ok THEN reject("InvalidRequest")
        ELSE IF sig.bytes # HmacSha256(key, token.payload_b64) THEN reject("Unauthorized")
        ELSE IF ~B64Decode(token.payload_b64).ok THEN reject("InvalidRequest")
        ELSE IF VerifyExpired(payload.exp_ms, now_ms) THEN reject("Unauthorized")
        ELSE [ok |-> TRUE, err |-> "none", payload |-> payload]

LinkRows_WithDeleted(tenant, fid) ==
    { r \in files : r.tenant_id = tenant /\ r.file_id = fid }

\* the WHERE clause of create_link's SELECT COUNT(*), line 1192
LinkRows(tenant, fid) == LiveRows(tenant, fid)

\* create_link, lines 1169-1242
CreateLink(x_api_key, fid, ttl_seconds) ==
    /\ LET auth == AuthFromHeaders(x_api_key, Null)
           fail(kind) ==
               /\ resp' = Response("link", kind, auth.tenant_id, fid, ttl_seconds, <<>>)
               /\ audit_tail' = << >>
           ttl == Clamp(IF ttl_seconds = NoInt THEN DefaultTtl ELSE ttl_seconds,
                        MinTtl, MaxTtl)
           expires_at_ms == now + ttl * MsPerSecond
           token == SignToken(signing_key, TokenPayload(auth.tenant_id, fid, expires_at_ms))
       IN  IF ~auth.ok THEN fail(auth.err)
           ELSE IF ~AssertCanWrite(auth) THEN fail("Forbidden")
           ELSE IF signing_key = Null THEN fail("InvalidRequest")
           ELSE IF fid = NoId THEN fail("InvalidRequest")
           ELSE IF Cardinality(LinkRows(auth.tenant_id, fid)) = 0 THEN fail("NotFound")
           ELSE /\ resp' = Response("link", "ok", auth.tenant_id, fid, ttl_seconds,
                                    [ok |-> TRUE, token |-> token,
                                     expires_at_ms |-> expires_at_ms])
                /\ audit_tail' \in AppendAudit("link_create", auth.tenant_id, auth.key_id,
                                             fid, [ttl_seconds |-> ttl])
    /\ tmp_left' = << >>
    /\ UNCHANGED << config, stream, now, files, objects, ing >>

\* ------------------------------------------------------------ request inputs
\* public_download, lines 1244-1363
PublicDownload(token) ==
    /\ LET v == VerifyToken(signing_key, token, now)
           fail(kind) ==
               /\ resp' = Response("public_download", kind, Null, NoId, token, <<>>)
               /\ audit_tail' = << >>
       IN  IF signing_key = Null THEN fail("InvalidRequest")
           ELSE IF ~v.ok THEN fail(v.err)
           ELSE /\ audit_tail' \in AppendAudit("public_download", v.payload.tenant_id, Null,
                                             v.payload.file_id, << >>)
                /\ \E d \in DownloadResponse(v.payload.tenant_id, v.payload.file_id,
                                              "public_download") :
                      resp' = [d EXCEPT !.req = token]
    /\ tmp_left' = << >>
    /\ UNCHANGED << config, stream, now, files, objects, ing >>

\* The clock moves on by the shortest life a link can have.
Sleep ==
    /\ now < MaxTime * MinTtl * MsPerSecond
    /\ now' = now + MinTtl * MsPerSecond
    /\ resp' = NoResp
    /\ audit_tail' = << >>
    /\ tmp_left' = << >>
    /\ UNCHANGED << config, stream, files, objects, ing >>

\* The audit log stops taking writes (its directory cannot be created, the
\* file cannot be opened, the disk is full): from here on an append may fail.
AuditLogBreaks ==
    /\ audit_log_ok
    /\ audit_log_ok' = FALSE
    /\ resp' = NoResp
    /\ audit_tail' = << >>
    /\ tmp_left' = << >>
    /\ UNCHANGED << require_api_key, master_key, signing_key, stream, now, files, objects, ing >>

\* A file under objects/ disappears from the disk (removed by hand, lost
\* with a volume).
BlobLost(path) ==
    /\ path \in DOMAIN objects
    /\ objects' = Remove(objects, path)
    /\ resp' = NoResp
    /\ audit_tail' = << >>
    /\ tmp_left' = << >>
    /\ UNCHANGED << config, stream, now, files, ing >>

\* The process dies: every handler in flight stops where it is.  What is
\* on disk stays as it is, the temp files of the ingests included.
Crash ==
    /\ InFlight # {}
    /\ ing' = [i \in Slots |-> IdleSlot]
    /\ resp' = NoResp
    /\ audit_tail' = << >>
    /\ tmp_left' = ing[1].tmp \o ing[2].tmp
    /\ UNCHANGED << config, stream, now, files, objects >>

\* The position of the blocking job a handler was waiting for when it was
\* dropped: the job was handed to the blocking pool before the handler
\* suspended, and the pool runs it whether or not anyone waits for it.
DetachedPc(pc) ==
    CASE pc = "publish" -> "detached_publish"
      [] pc = "encrypt_open" -> "detached_encrypt_open"
      [] pc = "encrypt_copy" -> "detached_encrypt_copy"
      [] pc = "remove_plain" -> "detached_remove_plain"
      [] pc = "insert" -> "detached_insert"

\* The client of an ingest goes away: the runtime drops the handler at the
\* .await it is suspended at (lines 507, 541, 558, 562, 608).  Nothing of
\* the handler after that .await runs; the dedup SELECT it may be waiting
\* for has no effect, any other job goes on alone.
Cancel(i) ==
    /\ ing[i].pc \in {"lookup", "publish", "encrypt_open", "encrypt_copy",
                      "remove_plain", "insert"}
    /\ IF ing[i].pc = "lookup"
       THEN /\ SetSlot(i, IdleSlot)
            /\ tmp_left' = ing[i].tmp
       ELSE /\ SetSlot(i, [ing[i] EXCEPT !.pc = DetachedPc(@)])
            /\ tmp_left' = << >>
    /\ resp' = NoResp
    /\ audit_tail' = << >>
    /\ UNCHANGED << config, stream, now, files, objects >>

\* The job of a dropped handler runs to its end: the rename (line 541), the
\* encrypt worker (lines 547-556), the removal of the plaintext (line 562)
\* or the INSERT (lines 584-607).  Its result goes to no one.
DetachedJob(i) ==
    /\ LET plain == PlainPath(ing[i].tenant_id, ing[i].file_id)
           age == AgePath(ing[i].tenant_id, ing[i].file_id)
       IN  CASE ing[i].pc = "detached_publish" ->
                  /\ objects' = Put(objects, plain, PlainBlob(ing[i].tmp[1]))
                  /\ SetSlot(i, IdleSlot)
                  /\ UNCHANGED files
             [] ing[i].pc = "detached_encrypt_open" ->
                  IF plain \notin DOMAIN objects
                  THEN /\ SetSlot(i, IdleSlot)
                       /\ UNCHANGED << files, objects >>
                  ELSE /\ objects' = Put(objects, age, AgeBlob(<<>>, FALSE))
                       /\ ing' = [j \in Slots |->
                                    IF j = i
                                    THEN [ing[i] EXCEPT !.pc = "detached_encrypt_copy",
                                                        !.input = << objects[plain].data >>,
                                                        !.raced = (Writers(i) # {})]
                                    ELSE IF j \in Writers(i)
                                         THEN [ing[j] EXCEPT !.raced = TRUE]
                                         ELSE ing[j]]
                       /\ UNCHANGED files
             [] ing[i].pc = "detached_encrypt_copy" ->
                  /\ \E whole \in (IF ing[i].raced THEN BOOLEAN ELSE {TRUE}) :
                        objects' = Put(objects, age,
                                       IF whole THEN AgeBlob(ing[i].input[1], TRUE)
                                       ELSE AgeBlob(<<>>, FALSE))
                  /\ ing' = [j \in Slots |->
                               IF j = i THEN IdleSlot
                               ELSE IF j \in Writers(i)
                                    THEN [ing[j] EXCEPT !.raced = TRUE]
                                    ELSE ing[j]]
                  /\ UNCHANGED files
             [] ing[i].pc = "detached_remove_plain" ->
                  /\ objects' = IF plain \in DOMAIN objects THEN Remove(objects, plain)
                                ELSE objects
                  /\ SetSlot(i, IdleSlot)
                  /\ UNCHANGED files
             [] ing[i].pc = "detached_insert" ->
                  /\ files' = IF InsertAllowed(ing[i].file_id)
                              THEN files \cup { NewRow(ing[i]) } ELSE files
                  /\ SetSlot(i, IdleSlot)
                  /\ UNCHANGED objects
             [] OTHER -> FALSE
    /\ Quiet
    /\ UNCHANGED << config, stream, now >>

WriterKeys == {"k1", "k2"}
ReadKeys == {"k1", "k2", "k3"}

IdA == FileIdOf(BodyA)
IdB == FileIdOf(BodyB)

Ingest(i, requests) ==
    \/ \E q \in requests : IngestRecv(i, q[1], q[2])
    \/ IngestLookup(i)
    \/ IngestPublish(i)
    \/ IngestEncryptOpen(i)
    \/ IngestEncryptCopy(i)
    \/ IngestRemovePlain(i)
    \/ IngestInsert(i)

ExtractionWrites(keys, fids) ==
    \/ \E k \in keys, f \in fids : SetExtractStatus(k, f, "done", Null)
    \/ \E k \in keys, f \in fids : UpsertAnnotations(k, f, "a1", Null)

Reads(keys, fids) ==
    \/ \E k \in keys, hint \in {Null, " t2 "} :
          Search(k, hint, SearchQuery(Null, Null, Null, NoInt))
    \/ \E k \in keys : PendingExtract(k, Null, NoInt)
    \/ \E k \in keys, f \in fids : Meta(k, f)
    \/ \E k \in keys, f \in fids : Download(k, f)
    \/ \E k \in keys, f \in fids : CreateLink(k, f, NoInt)

\* Uploads one after another, with the clock running: the same bytes as one
\* `file` field and as two, by two tenants, and the uploads the service
\* rejects.
Next ==
    \/ Tick
    \/ Ingest(1, (WriterKeys \X {BodyB, BodyAB})
                    \cup { << "k3", BodyAB >>, << "  ", BodyB >>, << "k1", BodyNone >> })
    \/ \E k \in WriterKeys : Tombstone(k, IdB)

\* Two ingest handlers running at once against tombstones and the
\* extraction-state writes.
NextRace ==
    \/ \E i \in Slots : Ingest(i, WriterKeys \X {BodyB})
    \/ \E k \in WriterKeys : Tombstone(k, IdB)
    \/ ExtractionWrites(WriterKeys, {IdB})

\* Every endpoint, for two tenants holding different files.
NextApi ==
    \/ Ingest(1, { << "k1", BodyA >>, << "k2", BodyB >> })
    \/ \E k \in WriterKeys, f \in {IdA, IdB} : Tombstone(k, f)
    \/ ExtractionWrites(WriterKeys, {IdA})
    \/ Reads(ReadKeys, {IdA, IdB})

\* The tokens a client may present: the ones create_link signs for the
\* shortest life, the same signed with another key, and one of them with one
\* bit changed.
LinkTokens ==
    LET exps == { j * MinTtl * MsPerSecond : j \in 1 .. MaxTime }
        mint(key, tenant, exp) == SignToken(key, TokenPayload(tenant, IdB, exp))
        flips == ({"payload", "sig"} \X {"alnum", "dot", "other"})
                    \cup ({"sep"} \X {"alnum", "other"})
    IN  { mint(SigningKey, t, e) : t \in {"t1", "t2"}, e \in exps }
           \cup { mint("other", "t1", e) : e \in exps }
           \cup { FlipBit(mint(SigningKey, "t1", MinTtl * MsPerSecond), f[1], f[2]) :
                      f \in flips }

\* the ttl_seconds a client may ask for: none, and values below, at, between
\* and above the two ends of the allowed range
LinkTtls == {NoInt, 0, 1, MinTtl, MinTtl + 1, MaxTtl, MaxTtl + 1}

\* Signed links over a file's life, and every endpoint called by a writer
\* and by a reader of one tenant, with a tenant hint naming another.
NextLink ==
    \/ Sleep
    \/ Ingest(1, {"k1", "k3"} \X {BodyB})
    \/ \E k \in {"k1", "k3"} : Tombstone(k, IdB)
    \/ ExtractionWrites({"k3"}, {IdB})
    \/ \E k \in ReadKeys, ttl \in LinkTtls : CreateLink(k, IdB, ttl)
    \/ \E token \in LinkTokens : PublicDownload(token)
    \/ \E k \in ReadKeys : Search(k, " t2 ", SearchQuery(Null, Null, Null, NoInt))
    \/ \E k \in ReadKeys : PendingExtract(k, " t2 ", NoInt)
    \/ \E k \in ReadKeys : Meta(k, IdB)
    \/ \E k \in ReadKeys : Download(k, IdB)

\* the tokens create_link signs at time 0 for the default life, and the same
\* signed with another key
AuditTokens ==
    { SignToken(key, TokenPayload("t1", IdB, DefaultTtl * MsPerSecond)) :
         key \in {SigningKey, "other"} }

\* Every audited endpoint, called by a writer and by a reader, over an audit
\* log that breaks at some point.
NextAudit ==
    \/ AuditLogBreaks
    \/ Ingest(1, {"k1", "k3"} \X {BodyB})
    \/ \E k \in {"k1", "k3"} : Tombstone(k, IdB)
    \/ ExtractionWrites({"k1"}, {IdB})
    \/ \E k \in {"k1", "k3"} : CreateLink(k, IdB, NoInt)
    \/ \E token \in AuditTokens : PublicDownload(token)

\* the limits a client may ask for: none, one below the allowed range and
\* one above it
Limits == {NoInt, MinLimit - 1, MaxLimit + 1}

\* the list queries: no filter, each filter alone, and q with text that is
\* part of a filename or of a digest, text in another case, text with a
\* LIKE wildcard, and blank text
ListQueries ==
    { SearchQuery(Null, Null, Null, limit) : limit \in Limits }
       \cup { SearchQuery("s1", Null, Null, NoInt),
              SearchQuery(Null, "text/plain", Null, NoInt),
              SearchQuery(Null, Null, "done", NoInt),
              SearchQuery("  ", Null, Null, NoInt) }
       \cup { WithText(SearchQuery(Null, Null, Null, NoInt), text) :
                 text \in {"txt", "4", "TXT", "a_t", "  "} }

\* One tenant holding two files ingested at different times, one of them
\* tombstoned at some point, and the listing with every kind of filter.
NextList ==
    \/ Tick
    \/ Ingest(1, {"k1"} \X {BodyA, BodyB})
    \/ Tombstone("k1", IdB)
    \/ SetExtractStatus("k1", IdA, "done", Null)
    \/ \E query \in ListQueries : Search("k1", Null, query)
    \/ Search("k2", Null, SearchQuery(Null, Null, Null, NoInt))

\* The extraction queue: two files of one tenant, the status of one going
\* back and forth, the other tombstoned at some point.
NextPending ==
    \/ Tick
    \/ Ingest(1, {"k1"} \X {BodyA, BodyB})
    \/ Tombstone("k1", IdB)
    \/ \E status \in {"done", "pending"} : SetExtractStatus("k1", IdA, status, Null)
    \/ \E limit \in Limits : PendingExtract("k1", Null, limit)
    \/ PendingExtract("k2", Null, NoInt)

\* Annotations written and overwritten on a record whose extraction state
\* has been set, next to a record of another tenant, with the clock running.
NextAnnotate ==
    \/ Tick
    \/ Ingest(1, { << "k1", BodyA >>, << "k2", BodyB >> })
    \/ SetExtractStatus("k1", IdA, "failed", "boom")
    \/ \E k \in WriterKeys, value \in {"a1", Null} : UpsertAnnotations(k, IdA, value, Null)

\* A record whose file is lost from the disk, and the two downloads.
NextDisk ==
    \/ Ingest(1, { << "k1", BodyB >> })
    \/ \E path \in DOMAIN objects : BlobLost(path)
    \/ Tombstone("k1", IdB)
    \/ \E k \in ReadKeys : Download(k, IdB)
    \/ \E token \in AuditTokens : PublicDownload(token)

\* Two uploads of the same bytes by one tenant, at once or one after the
\* other, with the process dying at any point.
NextCrash ==
    \/ \E i \in Slots : Ingest(i, { << "k1", BodyB >> })
    \/ Crash

\* A download of an encrypted record streamed through the channel, with a
\* client that reads at any pace or goes away, and a file that may be lost.
NextStream ==
    \/ Ingest(1, { << "k1", BodyB >> })
    \/ \E path \in DOMAIN objects : BlobLost(path)
    \/ DownloadStart("k3", IdB)
    \/ WorkerOpen
    \/ WorkerRead
    \/ WorkerSend
    \/ WorkerFail
    \/ BodyRecv
    \/ ClientGone
    \/ StreamEnd

\* what a caller of a service without auth may send as x-api-key, and as
\* tenant_id
OpenKeys == {Null, "k2"}
OpenHints == {Null, " t2 ", "  "}

\* Auth disabled: a file uploaded with no tenant hint and one uploaded with
\* the hint " t2 ", and every endpoint called with and without a key.
NextOpen ==
    \/ Ingest(1, { << "k2", BodyA >>, << Null, BodyB >> })
    \/ \E k \in OpenKeys, f \in {IdA, IdB} : Tombstone(k, f)
    \/ \E k \in OpenKeys : SetExtractStatus(k, IdB, "done", Null)
    \/ \E k \in OpenKeys : UpsertAnnotations(k, IdB, "a1", Null)
    \/ \E k \in OpenKeys, hint \in OpenHints :
          Search(k, hint, SearchQuery(Null, Null, Null, NoInt))
    \/ \E k \in OpenKeys, hint \in OpenHints : PendingExtract(k, hint, NoInt)
    \/ \E k \in OpenKeys, f \in {IdA, IdB} : Meta(k, f)
    \/ \E k \in OpenKeys : Download(k, IdB)
    \/ \E k \in OpenKeys : CreateLink(k, IdB, NoInt)

\* Two uploads of the same bytes by one tenant, at once or one after the
\* other, with clients that go away at any point.
NextCancel ==
    \/ \E i \in Slots : Ingest(i, { << "k1", BodyB >> })
    \/ \E i \in Slots : Cancel(i)
    \/ \E i \in Slots : DetachedJob(i)

\* A record whose extraction state and annotations are written before and
\* after it is tombstoned, next to a record of another tenant, with the
\* clock running.
NextFrozen ==
    \/ Tick
    \/ Ingest(1, { << "k1", BodyA >>, << "k2", BodyB >> })
    \/ \E k \in WriterKeys : Tombstone(k, IdA)
    \/ \E k \in WriterKeys : SetExtractStatus(k, IdA, "failed", "boom")
    \/ \E k \in WriterKeys : UpsertAnnotations(k, IdA, "a1", Null)

Spec == Init /\ [][Next]_vars
SpecFrozen == Init /\ [][NextFrozen]_vars
SpecCancel == Init /\ [][NextCancel]_vars
SpecOpen == InitOpen /\ [][NextOpen]_vars
SpecStream == Init /\ [][NextStream]_vars

\* The same with the scheduling the runtime gives: the blocking worker is a
\* thread of its own, so each of its steps is taken once it stays possible,
\* and a response body that stays connected takes the items waiting for it.
SpecStreamFair ==
    /\ SpecStream
    /\ WF_vars(WorkerOpen) /\ WF_vars(WorkerRead) /\ WF_vars(WorkerSend)
    /\ WF_vars(WorkerFail) /\ WF_vars(BodyRecv)
SpecCrash == Init /\ [][NextCrash]_vars
SpecDisk == Init /\ [][NextDisk]_vars
SpecAnnotate == Init /\ [][NextAnnotate]_vars
SpecList == Init /\ [][NextList]_vars
SpecPending == Init /\ [][NextPending]_vars
SpecAudit == Init /\ [][NextAudit]_vars
SpecLink == Init /\ [][NextLink]_vars
SpecRace == Init /\ [][NextRace]_vars
SpecApi == Init /\ [][NextApi]_vars
\* ===================================================================== claims
Range(s) == { s[i] : i \in DOMAIN s }

Tombstoned(tenant, fid) ==
    \E r \in files : r.tenant_id = tenant /\ r.file_id = fid /\ r.deleted_at_ms # NoTime

\* the reply to an ingest that got as far as computing its file_id
IngestReply == resp.op = "ingest" /\ resp.file_id # NoId

\* C1: an ingest of bytes whose file_id another tenant already holds live
\* succeeds and leaves the caller with a live record of its own for that
\* file_id.
C1_SecondTenantIngestSucceeds ==
    (/\ IngestReply
     /\ \E r \in files : /\ r.file_id = resp.file_id
                         /\ r.tenant_id # resp.tenant_id
                         /\ r.deleted_at_ms = NoTime)
    => /\ resp.status = "ok"
       /\ LiveRows(resp.tenant_id, resp.file_id) # {}

\* C2: an ingest of bytes whose record the same tenant has tombstoned
\* succeeds and inserts a new live record for that tenant.
C2_ReingestAfterTombstone ==
    (IngestReply /\ Tombstoned(resp.tenant_id, resp.file_id))
    => /\ resp.status = "ok"
       /\ LiveRows(resp.tenant_id, resp.file_id) # {}

\* C3: for every live record, file_id = sha256 = the digest of the plaintext
\* stored at its storage_path, and size is the length of that plaintext.
C3_RowMatchesStoredPlaintext ==
    \A r \in files :
       (r.deleted_at_ms = NoTime /\ r.storage_path \in DOMAIN objects)
       => LET plaintext == objects[r.storage_path].data
          IN  /\ r.file_id = r.sha256
              /\ r.sha256 = Sha256Hex(plaintext)
              /\ r.size = Len(plaintext)

\* C4: right after an ingest of bytes B (one `file` field) has succeeded, a
\* download of the returned file_id by the same tenant returns exactly B.
C4_RoundTrip ==
    (IngestReply /\ resp.status = "ok" /\ Len(resp.req) = 1)
    => \A d \in DownloadResponse(resp.tenant_id, resp.data.file_id, "download") :
          /\ d.status = "ok"
          /\ ~d.data.io_error
          /\ d.data.body = resp.req[1].data

\* C5: when the dedup lookup of an ingest runs while its tenant holds a live
\* record r for the bytes, that step ends the request with r's file_id,
\* sha256, size and encrypted flag, changes no row and no blob, leaves no
\* temp file, and appends one ingest audit line with dedup = true.
C5_DedupHitStep(i) ==
    (/\ ing[i].pc = "lookup"
     /\ ing'[i].pc # "lookup"
     /\ LiveRows(ing[i].tenant_id, ing[i].file_id) # {})
    => /\ \E r \in LiveRows(ing[i].tenant_id, ing[i].file_id) :
             /\ resp' = Response("ingest", "ok", ing[i].tenant_id, ing[i].file_id,
                                 ing[i].parts,
                                 IngestResponse(r.file_id, r.sha256, r.size, r.encrypted))
             /\ resp'.data.file_id = ing[i].file_id
       /\ files' = files
       /\ objects' = objects
       /\ ing'[i] = IdleSlot
       /\ tmp_left' = << >>
       /\ Len(audit_tail') = 1
       /\ audit_tail'[1].action = "ingest"
       /\ audit_tail'[1].extra.dedup

C5_DedupHitIsIdempotent == [][\A i \in Slots : C5_DedupHitStep(i)]_vars

C5_Witness ==
    /\ IngestReply
    /\ resp.status = "ok"
    /\ Len(audit_tail) = 1
    /\ audit_tail[1].extra.dedup
    /\ \E r \in LiveRows(resp.tenant_id, resp.file_id) : r.created_at_ms < now

\* C6: the table never holds two non-tombstoned rows with the same
\* (tenant_id, file_id).
C6_UniqueLiveRow ==
    \A r1, r2 \in files :
       (/\ r1.tenant_id = r2.tenant_id
        /\ r1.file_id = r2.file_id
        /\ r1.deleted_at_ms = NoTime
        /\ r2.deleted_at_ms = NoTime)
       => r1 = r2

\* a second ingest of a live record's (tenant, file_id) stands at its INSERT
C6_Witness ==
    \E i \in Slots :
       /\ ing[i].pc = "insert"
       /\ LiveRows(ing[i].tenant_id, ing[i].file_id) # {}

\* C7: an ingest that ends while its tenant holds a live record for the same
\* file_id (the insert of a concurrent ingest won) is answered with success
\* and that file_id.
C7_LoserReturnsSuccess ==
    (IngestReply /\ LiveRows(resp.tenant_id, resp.file_id) # {})
    => /\ resp.status = "ok"
       /\ resp.data.file_id = resp.file_id

\* C8: of two ingests of the same (tenant, file_id) that are both past the
\* dedup miss, the first to run its INSERT commits a row and is answered
\* with success, and an INSERT that finds a live row for its (tenant,
\* file_id) commits nothing and is answered with an error.
C8_InsertStep(i) ==
    (ing[i].pc = "insert" /\ ing'[i].pc # "insert")
    => IF LiveRows(ing[i].tenant_id, ing[i].file_id) # {}
       THEN resp'.status # "ok" /\ files' = files
       ELSE (\E j \in Slots \ {i} :
                /\ ing[j].pc \in {"publish", "encrypt_open", "encrypt_copy",
                                  "remove_plain", "insert"}
                /\ SamePath(i, j))
            => /\ resp'.status = "ok"
               /\ \E r \in files' \ files :
                     /\ files' = files \cup {r}
                     /\ r.tenant_id = ing[i].tenant_id
                     /\ r.file_id = ing[i].file_id
                     /\ r.deleted_at_ms = NoTime

C8_ExactlyOneInsertCommits == [][\A i \in Slots : C8_InsertStep(i)]_vars

\* C9: no read sees a tombstoned record: search and pending_extract never
\* list it, and meta, download and link for its file_id answer NotFound to
\* every caller that passes the role gate.
C9_TombstonedIsInvisible ==
    /\ (resp.op \in {"search", "pending_extract"} /\ resp.status = "ok")
       => \A r \in files :
             r.deleted_at_ms # NoTime => FileMeta(r) \notin Range(resp.data.items)
    /\ (/\ resp.op \in {"meta", "download", "link"}
        /\ resp.status \notin {"Unauthorized", "Forbidden"}
        /\ Tombstoned(resp.tenant_id, resp.file_id))
       => resp.status = "NotFound"

C9_Witness ==
    /\ resp.op = "download"
    /\ resp.status = "NotFound"
    /\ Tombstoned(resp.tenant_id, resp.file_id)
    /\ \E r \in files : r.deleted_at_ms = NoTime

\* C10: what a request of tenant T returns, streams, signs or modifies
\* belongs to T: listed and returned records carry tenant_id = T, a
\* download streams the blob of T's own live record, a link names T, and the
\* rows a step changes are rows of the tenant the step answered.
C10_ReadsOwnRows ==
    /\ (resp.op \in {"search", "pending_extract"} /\ resp.status = "ok")
       => \A m \in Range(resp.data.items) :
             /\ m.tenant_id = resp.tenant_id
             /\ \E r \in files : r.tenant_id = resp.tenant_id /\ FileMeta(r) = m
    /\ (resp.op = "meta" /\ resp.status = "ok")
       => /\ resp.data.tenant_id = resp.tenant_id
          /\ \E r \in LiveRows(resp.tenant_id, resp.file_id) : FileMeta(r) = resp.data
    /\ (resp.op = "download" /\ resp.status = "ok")
       => \E r \in LiveRows(resp.tenant_id, resp.file_id) :
             /\ r.storage_path[2] = resp.tenant_id
             /\ resp \in DownloadResponse(r.tenant_id, r.file_id, "download")
    /\ (resp.op = "link" /\ resp.status = "ok")
       => /\ resp.data.token.payload_b64[2].tenant_id = resp.tenant_id
          /\ resp.data.token.payload_b64[2].file_id = resp.file_id
          /\ LiveRows(resp.tenant_id, resp.file_id) # {}

C10_WritesOwnRows ==
    \A r \in files :
       r \notin files'
       => /\ resp'.op \in {"tombstone", "extract_status", "annotations"}
          /\ resp'.status = "ok"
          /\ r.tenant_id = resp'.tenant_id
          /\ r.file_id = resp'.file_id

C10_TenantIsolation == [][C10_ReadsOwnRows' /\ C10_WritesOwnRows]_vars

\* a tenant asks for a file_id that only another tenant holds
C10_Witness ==
    /\ resp.op \in {"meta", "download", "link", "extract_status", "annotations"}
    /\ resp.status = "NotFound"
    /\ \E r \in files : /\ r.file_id = resp.file_id
                        /\ r.tenant_id # resp.tenant_id
                        /\ r.deleted_at_ms = NoTime
    /\ \E r \in files : r.tenant_id = resp.tenant_id /\ r.deleted_at_ms = NoTime

\* the rows a tenant's own requests have created
OwnRows(tenant) == { r \in files : r.tenant_id = tenant }

\* C11: what a tenant is answered depends on its own history only: whether
\* the INSERT of its ingest commits is decided by the rows of that tenant
\* alone (it commits exactly when the tenant has no row for the file_id),
\* whatever rows other tenants hold.
C11_InsertStep(i) ==
    (ing[i].pc = "insert" /\ ing'[i].pc # "insert")
    => ((resp'.status = "ok")
           <=> ~ \E r \in OwnRows(ing[i].tenant_id) : r.file_id = ing[i].file_id)

C11_TenantNoninterference == [][\A i \in Slots : C11_InsertStep(i)]_vars

\* an untouched token signed with the service's signing key
SignedToken(token) == token = SignToken(signing_key, token.payload_b64[2])

\* C12: an untouched token signed with the signing key is accepted by
\* verify_token exactly while now < exp_ms: a public download presenting it
\* is let through before that and answered Unauthorized at now = exp_ms and
\* later.
C12_AcceptedUntilExpiry ==
    /\ \A token \in LinkTokens :
          SignedToken(token)
          => (VerifyToken(signing_key, token, now).ok
                 <=> now < token.payload_b64[2].exp_ms)
    /\ (resp.op = "public_download" /\ SignedToken(resp.req))
       => IF now < resp.req.payload_b64[2].exp_ms
          THEN resp.status \notin {"Unauthorized", "InvalidRequest"}
          ELSE resp.status = "Unauthorized"

\* a link to a live record is refused at the very millisecond it expires
C12_Witness ==
    /\ resp.op = "public_download"
    /\ SignedToken(resp.req)
    /\ resp.status = "Unauthorized"
    /\ now = resp.req.payload_b64[2].exp_ms
    /\ \E r \in LiveRows(resp.req.payload_b64[2].tenant_id,
                         resp.req.payload_b64[2].file_id) : r.created_at_ms < now

\* a token that differs in one bit from one signed with the signing key
OneBitOff(token) ==
    \E part \in {"payload", "sep", "sig"}, class \in {"alnum", "dot", "other"} :
       /\ part = "sep" => class # "dot"
       /\ token = FlipBit(SignToken(signing_key, token.payload_b64[2]), part, class)

\* C13: a token that differs from a validly signed one by a single changed
\* bit, in the payload part, the separator or the signature part, is
\* rejected by verify_token with Unauthorized.
C13_OneBitOffIsUnauthorized ==
    (resp.op = "public_download" /\ OneBitOff(resp.req))
    => /\ ~VerifyToken(signing_key, resp.req, now).ok
       /\ resp.status = "Unauthorized"

\* C14: a link is minted only for a record that is live for the caller's
\* tenant at issuance, and a public download with a signed, unexpired token
\* whose record has been tombstoned is answered NotFound.
C14_LinkFollowsRecord ==
    /\ (resp.op = "link" /\ resp.status = "ok")
       => /\ LiveRows(resp.tenant_id, resp.file_id) # {}
          /\ resp.data.token = SignToken(signing_key,
                                         TokenPayload(resp.tenant_id, resp.file_id,
                                                      resp.data.expires_at_ms))
    /\ (/\ resp.op = "public_download"
        /\ SignedToken(resp.req)
        /\ now < resp.req.payload_b64[2].exp_ms
        /\ Tombstoned(resp.req.payload_b64[2].tenant_id, resp.req.payload_b64[2].file_id))
       => resp.status = "NotFound"

\* the token was minted for the shortest life while the record was live,
\* and is presented, unexpired, after the tombstone
C14_Witness ==
    /\ resp.op = "public_download"
    /\ resp.status = "NotFound"
    /\ SignedToken(resp.req)
    /\ now < resp.req.payload_b64[2].exp_ms
    /\ \E r \in files :
          /\ r.tenant_id = resp.req.payload_b64[2].tenant_id
          /\ r.file_id = resp.req.payload_b64[2].file_id
          /\ r.deleted_at_ms # NoTime
          /\ r.created_at_ms <= resp.req.payload_b64[2].exp_ms - MinTtl * MsPerSecond
          /\ resp.req.payload_b64[2].exp_ms - MinTtl * MsPerSecond <= r.deleted_at_ms

\* the step is a set_extract_status call that succeeded on row r
StatusSetOn(r) ==
    /\ resp'.op = "extract_status"
    /\ resp'.status = "ok"
    /\ resp'.tenant_id = r.tenant_id
    /\ resp'.file_id = r.file_id
    /\ r.deleted_at_ms = NoTime

\* C15: extract_attempt counts the successful set_extract_status calls on a
\* record: a row is inserted with 0, each successful call on it, however the
\* calls interleave with other requests, adds exactly 1, and no other step
\* (set_annotations, a failed call, anything else) changes it.
C15_AttemptStep ==
    /\ \A r \in files :
          \E r2 \in files' :
             /\ r2.rowid = r.rowid
             /\ r2.extract_attempt
                   = r.extract_attempt + (IF StatusSetOn(r) THEN 1 ELSE 0)
    /\ \A r2 \in files' :
          (\A r \in files : r.rowid # r2.rowid) => r2.extract_attempt = 0

C15_AttemptCountsCalls == [][C15_AttemptStep]_vars

\* two calls have succeeded on a record that also got annotations
C15_Witness ==
    \E r \in files :
       /\ r.deleted_at_ms = NoTime
       /\ r.extract_attempt = 2
       /\ r.annotations_json # Null

\* the columns fixed when the row is committed
Committed(r) ==
    << r.created_at_ms, r.size, r.sha256, r.encrypted, r.storage_path,
       r.filename, r.mime, r.source, r.session_id >>

\* C16: no step changes the created_at_ms, size, sha256, encrypted,
\* storage_path, filename, mime, source or session_id of a committed row.
C16_CommittedColumnsStep ==
    \A r \in files :
       \E r2 \in files' : r2.rowid = r.rowid /\ Committed(r2) = Committed(r)

C16_CommittedColumnsKept == [][C16_CommittedColumnsStep]_vars

\* a dedup re-ingest answered from a record that has been annotated and had
\* its extraction status set
C16_Witness ==
    /\ IngestReply
    /\ resp.status = "ok"
    /\ Len(audit_tail) = 1
    /\ audit_tail[1].extra.dedup
    /\ \E r \in LiveRows(resp.tenant_id, resp.file_id) :
          /\ r.annotations_json # Null
          /\ r.extract_attempt > 0
          /\ r.session_id # Null

\* C17: deleted_at_ms is set at most once and never returns to null: a
\* tombstone that finds the record live sets it to the current time and
\* reports tombstoned = true; any other tombstone reports tombstoned = false;
\* and a row that is tombstoned keeps its deleted_at_ms in every step.
C17_TombstoneStep ==
    /\ \A r \in files :
          \E r2 \in files' :
             /\ r2.rowid = r.rowid
             /\ r.deleted_at_ms # NoTime => r2.deleted_at_ms = r.deleted_at_ms
             /\ r2.deleted_at_ms # r.deleted_at_ms
                => /\ resp'.op = "tombstone"
                   /\ resp'.status = "ok"
                   /\ resp'.data.tombstoned
                   /\ r.tenant_id = resp'.tenant_id
                   /\ r.file_id = resp'.file_id
                   /\ r2.deleted_at_ms = now
    /\ (resp'.op = "tombstone" /\ resp'.status = "ok")
       => (resp'.data.tombstoned <=> LiveRows(resp'.tenant_id, resp'.file_id) # {})

C17_TombstonedOnce == [][C17_TombstoneStep]_vars

\* a second tombstone, later than the first
C17_Witness ==
    /\ resp.op = "tombstone"
    /\ resp.status = "ok"
    /\ ~resp.data.tombstoned
    /\ \E r \in files :
          /\ r.tenant_id = resp.tenant_id
          /\ r.file_id = resp.file_id
          /\ r.deleted_at_ms # NoTime
          /\ r.deleted_at_ms < now

\* C18: a set_annotations, set_extract_status or tombstone call that passes
\* the auth and input checks and finds no live row of the caller's tenant
\* for the file_id (unknown file, another tenant's file, tombstoned record),
\* so that its UPDATE affects zero rows, is answered NotFound.
C18_ZeroRowsStep ==
    (/\ resp'.op \in {"annotations", "extract_status", "tombstone"}
     /\ resp'.status \notin {"Unauthorized", "Forbidden", "InvalidRequest"}
     /\ LiveRows(resp'.tenant_id, resp'.file_id) = {})
    => /\ resp'.status = "NotFound"
       /\ files' = files

C18_ZeroRowsIsNotFound == [][C18_ZeroRowsStep]_vars

\* the keys whose resolved role is reader, and all keys of the table
ReaderKeys == { k \in DOMAIN ApiKeyTable : NormalizeRole(ApiKeyTable[k].role) = "reader" }
AllKeys == DOMAIN ApiKeyTable

\* the request was refused with Forbidden and changed nothing
Refused ==
    /\ resp'.status = "Forbidden"
    /\ files' = files
    /\ objects' = objects
    /\ audit_tail' = << >>

\* C19: a request made with a reader's key to ingest, link, annotations,
\* extract_status or tombstone is answered Forbidden and changes no row, no
\* blob under objects/ and no audit line; search, pending_extract, meta and
\* download admit the reader, the writer and the admin.
C19_RoleGateStep ==
    /\ \A k \in ReaderKeys :
          /\ (resp'.op = "ingest" /\ IngestRecv(1, k, BodyB))
             => Refused /\ ing'[1] = IdleSlot
          /\ (resp'.op = "link" /\ CreateLink(k, IdB, 1)) => Refused
          /\ (resp'.op = "annotations" /\ UpsertAnnotations(k, IdB, "a1", Null))
             => Refused
          /\ (resp'.op = "extract_status" /\ SetExtractStatus(k, IdB, "done", Null))
             => Refused
          /\ (resp'.op = "tombstone" /\ Tombstone(k, IdB)) => Refused
    /\ \A k \in AllKeys :
          LET admitted == resp'.status \notin {"Unauthorized", "Forbidden"}
          IN  /\ (/\ resp'.op = "search"
                  /\ Search(k, " t2 ", SearchQuery(Null, Null, Null, NoInt)))
                 => admitted
              /\ (resp'.op = "pending_extract" /\ PendingExtract(k, " t2 ", NoInt))
                 => admitted
              /\ (resp'.op = "meta" /\ Meta(k, IdB)) => admitted
              /\ (resp'.op = "download" /\ Download(k, IdB)) => admitted

C19_RoleGates == [][C19_RoleGateStep]_vars

\* a reader was refused the tombstone of a live record of its own tenant
C19_Witness ==
    /\ resp.op = "tombstone"
    /\ resp.status = "Forbidden"
    /\ LiveRows(resp.tenant_id, resp.file_id) # {}

\* the tenant the key table binds to a key
KeyTenant(k) == ApiKeyTable[k].tenant_id

\* C20: with API keys required, the tenant of an operation is the tenant
\* bound to the presented key, whatever tenant_id the request names: a
\* search or pending_extract with a tenant_id query parameter answers with
\* the key's tenant's rows, an upload with a tenant_id field is bound to the
\* key's tenant, and the blob and the row it creates are that tenant's.
C20_KeyTenantStep ==
    /\ \A k \in AllKeys :
          /\ (/\ resp'.op = "search"
              /\ Search(k, " t2 ", SearchQuery(Null, Null, Null, NoInt)))
             => /\ resp'.tenant_id = KeyTenant(k)
                /\ resp'.status = "ok"
                /\ \A m \in Range(resp'.data.items) :
                      \E r \in OwnRows(KeyTenant(k)) : FileMeta(r) = m
          /\ (resp'.op = "pending_extract" /\ PendingExtract(k, " t2 ", NoInt))
             => /\ resp'.tenant_id = KeyTenant(k)
                /\ resp'.status = "ok"
                /\ \A m \in Range(resp'.data.items) :
                      \E r \in OwnRows(KeyTenant(k)) : FileMeta(r) = m
          /\ (ing'[1].pc = "lookup" /\ IngestRecv(1, k, BodyB))
             => ing'[1].tenant_id = KeyTenant(k)
    /\ \A i \in Slots :
          /\ \A path \in DOMAIN objects' \ DOMAIN objects :
                ing[i].pc # "idle" => path[2] = ing[i].tenant_id
          /\ \A r2 \in files' :
                (ing[i].pc = "insert" /\ \A r \in files : r.rowid # r2.rowid)
                => r2.tenant_id = ing[i].tenant_id /\ r2.storage_path[2] = r2.tenant_id

C20_KeyDecidesTenant == [][require_api_key => C20_KeyTenantStep]_vars

\* every upload and every search named tenant t2; the record is t1's and t1
\* is shown it
C20_Witness ==
    /\ require_api_key
    /\ resp.op = "search"
    /\ resp.status = "ok"
    /\ resp.tenant_id = "t1"
    /\ Len(resp.data.items) = 1
    /\ OwnRows("t2") = {}
    /\ BodyB.tenant_id = " t2 "

\* this step has the response r and the effects f (rows), o (blobs), g
\* (ingests in flight) and t (temp files), and its audit line was written
AuditedWith(r, f, o, g, t) ==
    /\ resp' = r
    /\ files' = f
    /\ objects' = o
    /\ ing' = g
    /\ tmp_left' = t
    /\ audit_tail' # << >>

\* C21: a request whose audit append failed has the response and the
\* effects on the rows, the blobs, the ingests in flight and the temp files
\* that the same request has when its audit line is written.
C21_AuditFailureStep ==
    (~audit_log_ok /\ audit_tail' = << >>)
    => \A r \in {resp'}, f \in {files'}, o \in {objects'}, g \in {ing'}, t \in {tmp_left'} :
          /\ \A k \in {"k1", "k3"} :
                /\ (resp'.op = "tombstone" /\ Tombstone(k, IdB))
                   => (ENABLED (Tombstone(k, IdB) /\ audit_tail' # << >>)
                       => ENABLED (Tombstone(k, IdB) /\ AuditedWith(r, f, o, g, t)))
                /\ (resp'.op = "link" /\ CreateLink(k, IdB, NoInt))
                   => (ENABLED (CreateLink(k, IdB, NoInt) /\ audit_tail' # << >>)
                       => ENABLED (CreateLink(k, IdB, NoInt) /\ AuditedWith(r, f, o, g, t)))
          /\ (resp'.op = "extract_status" /\ SetExtractStatus("k1", IdB, "done", Null))
             => (ENABLED (SetExtractStatus("k1", IdB, "done", Null) /\ audit_tail' # << >>)
                 => ENABLED (SetExtractStatus("k1", IdB, "done", Null)
                                /\ AuditedWith(r, f, o, g, t)))
          /\ (resp'.op = "annotations" /\ UpsertAnnotations("k1", IdB, "a1", Null))
             => (ENABLED (UpsertAnnotations("k1", IdB, "a1", Null) /\ audit_tail' # << >>)
                 => ENABLED (UpsertAnnotations("k1", IdB, "a1", Null)
                                /\ AuditedWith(r, f, o, g, t)))
          /\ \A token \in AuditTokens :
                (resp'.op = "public_download" /\ PublicDownload(token))
                => (ENABLED (PublicDownload(token) /\ audit_tail' # << >>)
                    => ENABLED (PublicDownload(token) /\ AuditedWith(r, f, o, g, t)))
          /\ (resp'.op = "ingest" /\ IngestLookup(1))
             => (ENABLED (IngestLookup(1) /\ audit_tail' # << >>)
                 => ENABLED (IngestLookup(1) /\ AuditedWith(r, f, o, g, t)))
          /\ (resp'.op = "ingest" /\ IngestInsert(1))
             => (ENABLED (IngestInsert(1) /\ audit_tail' # << >>)
                 => ENABLED (IngestInsert(1) /\ AuditedWith(r, f, o, g, t)))

C21_AuditFailureIsSwallowed == [][C21_AuditFailureStep]_vars

\* a tombstone of a live record went through although its audit line was lost
C21_Witness ==
    /\ ~audit_log_ok
    /\ audit_tail = << >>
    /\ resp.op = "tombstone"
    /\ resp.status = "ok"
    /\ resp.data.tombstoned
    /\ Tombstoned(resp.tenant_id, resp.file_id)

\* the audit action each endpoint emits
AuditAction(op) ==
    CASE op = "ingest" -> "ingest"
      [] op = "tombstone" -> "tombstone"
      [] op = "link" -> "link_create"
      [] op = "public_download" -> "public_download"
      [] op = "annotations" -> "annotations_upsert"
      [] op = "extract_status" -> "extract_status"
      [] OTHER -> "none"

\* C22: a step appends an audit line only when it ends a request with a
\* success, or when it is a public download whose token verified: a request
\* that returns an error appends nothing, except that public_download
\* appends its line once the token has verified, whatever the lookup and the
\* streaming then return.
C22_AuditOnlyOnSuccess ==
    /\ audit_tail # << >>
       => /\ Len(audit_tail) = 1
          /\ audit_tail[1].action = AuditAction(resp.op)
          /\ resp.status = "ok" \/ resp.op = "public_download"
    /\ resp.op = "public_download"
       => /\ audit_tail # << >> => VerifyToken(signing_key, resp.req, now).ok
          /\ (audit_log_ok /\ VerifyToken(signing_key, resp.req, now).ok)
             => audit_tail # << >>
    /\ (audit_log_ok /\ resp.status = "ok" /\ AuditAction(resp.op) # "none")
       => audit_tail # << >>

\* a public download with a good token for a record that is not there: the
\* answer is NotFound and the audit line is written
C22_Witness ==
    /\ resp.op = "public_download"
    /\ resp.status = "NotFound"
    /\ Len(audit_tail) = 1
    /\ audit_tail[1].action = "public_download"
    /\ Tombstoned(resp.req.payload_b64[2].tenant_id, resp.req.payload_b64[2].file_id)

\* C23: in every state, other ingests of the same bytes in flight or not,
\* the file at the storage_path of each live record is there and complete
\* (the plaintext itself when encrypted = false, a whole container of it
\* when encrypted = true, with the record's sha256 and size), and a download
\* of the record returns the whole plaintext.
C23_LiveBlobIsComplete ==
    \A r \in files :
       r.deleted_at_ms = NoTime
       => /\ r.storage_path \in DOMAIN objects
          /\ objects[r.storage_path].age = r.encrypted
          /\ objects[r.storage_path].whole
          /\ Sha256Hex(objects[r.storage_path].data) = r.sha256
          /\ Len(objects[r.storage_path].data) = r.size
          /\ \A d \in DownloadResponse(r.tenant_id, r.file_id, "download") :
                /\ d.status = "ok"
                /\ ~d.data.io_error
                /\ Len(d.data.body) = r.size

\* the life in seconds a link asked for with ttl_seconds = asked must get
LinkLife(asked) ==
    IF asked = NoInt THEN DefaultTtl
    ELSE IF asked < MinTtl THEN MinTtl
    ELSE IF asked > MaxTtl THEN MaxTtl
    ELSE asked

\* C24: a link issued at time now for ttl_seconds = asked has expires_at_ms
\* and the token's exp_ms both equal to now + ttl * 1000, where ttl is asked
\* clamped to [30, 3600], or 300 when asked is absent; the token verifies
\* up to the last millisecond before that time and no longer at it, so it
\* is valid for no less than 30 s and no more than 3600 s.
C24_LinkExpiry ==
    (resp.op = "link" /\ resp.status = "ok")
    => LET ttl == LinkLife(resp.req)
           token == resp.data.token
       IN  /\ resp.data.expires_at_ms = now + ttl * MsPerSecond
           /\ token.payload_b64[2].exp_ms = resp.data.expires_at_ms
           /\ VerifyToken(signing_key, token, now + ttl * MsPerSecond - 1).ok
           /\ ~VerifyToken(signing_key, token, now + ttl * MsPerSecond).ok
           /\ resp.data.expires_at_ms - now >= MinTtl * MsPerSecond
           /\ resp.data.expires_at_ms - now <= MaxTtl * MsPerSecond
           /\ Len(audit_tail) = 1 /\ audit_tail[1].extra.ttl_seconds = ttl

\* a link asked for more than an hour, some time after the service started
C24_Witness ==
    /\ resp.op = "link"
    /\ resp.status = "ok"
    /\ resp.req > MaxTtl
    /\ now > 0
    /\ resp.data.expires_at_ms = now + MaxTtl * MsPerSecond

\* the record waits for extraction
InQueue(r) == r.deleted_at_ms = NoTime /\ r.extract_status \in {Null, "pending"}

\* what a limit asked for comes to, between lo and hi, dflt when absent
LimitOf(asked, dflt) ==
    IF asked = NoInt THEN dflt
    ELSE IF asked < MinLimit THEN MinLimit
    ELSE IF asked > MaxLimit THEN MaxLimit
    ELSE asked

\* x comes before y in a listing by created_at_ms in direction dir
Before(x, y, dir) ==
    IF dir = Asc THEN x.created_at_ms < y.created_at_ms
    ELSE x.created_at_ms > y.created_at_ms

\* items lists, without repeats, n of the rows of want (all of them if there
\* are no more than n): those that come first in direction dir
ListsFirst(items, want, n, dir) ==
    /\ Len(items) = (IF Cardinality(want) < n THEN Cardinality(want) ELSE n)
    /\ \A i \in DOMAIN items : \E r \in want : FileMeta(r) = items[i]
    /\ \A i, j \in DOMAIN items : i # j => items[i] # items[j]
    /\ \A i, j \in DOMAIN items : i < j => ~Before(items[j], items[i], dir)
    /\ \A r \in want :
          (\A i \in DOMAIN items : items[i] # FileMeta(r))
          => \A i \in DOMAIN items : ~Before(r, items[i], dir)

\* the answer of pending_extract is the caller's queue, oldest first, cut at
\* the limit
C25_Listing ==
    (resp.op = "pending_extract" /\ resp.status = "ok")
    => ListsFirst(resp.data.items,
                  { r \in files : r.tenant_id = resp.tenant_id /\ InQueue(r) },
                  LimitOf(resp.req, DefaultPendingLimit), Asc)

\* a row enters the queue when it is inserted, and a successful
\* set_extract_status leaves it in the queue exactly when the status is
\* "pending"
C25_QueueStep ==
    /\ \A r2 \in files' : (\A r \in files : r.rowid # r2.rowid) => InQueue(r2)
    /\ (resp'.op = "extract_status" /\ resp'.status = "ok")
       => \A r2 \in files' :
             (/\ r2.tenant_id = resp'.tenant_id
              /\ r2.file_id = resp'.file_id
              /\ r2.deleted_at_ms = NoTime)
             => (InQueue(r2) <=> resp'.data.status = "pending")

\* C25: pending_extract returns exactly the caller's non-tombstoned records
\* whose extract_status is null or "pending", oldest first, cut at
\* clamp(limit, 1, 200) (25 when absent); a record is in that set when it is
\* ingested, leaves it on a successful set_extract_status with another
\* status and is back in it after one with "pending".
C25_PendingQueue == [][C25_Listing' /\ C25_QueueStep]_vars

\* two records wait, one of them back in the queue after "done" and then
\* "pending"; a listing with limit 0 shows the older one alone
C25_Witness ==
    /\ resp.op = "pending_extract"
    /\ resp.status = "ok"
    /\ resp.req = 0
    /\ Len(resp.data.items) = 1
    /\ \E r1, r2 \in files :
          /\ r1.tenant_id = resp.tenant_id /\ InQueue(r1)
          /\ r2.tenant_id = resp.tenant_id /\ InQueue(r2)
          /\ r1.created_at_ms < r2.created_at_ms
          /\ r2.extract_attempt = 2
          /\ resp.data.items[1] = FileMeta(r1)

\* part occurs in text as a run of consecutive characters
Substring(part, text) ==
    \E i \in 1 .. (Len(text) - Len(part) + 1) : SubSeq(text, i, i + Len(part) - 1) = part

\* the row satisfies every filter the query supplies
Satisfies(r, query) ==
    /\ Given(query.session_id) => r.session_id = query.session_id
    /\ Given(query.mime) => r.mime = query.mime
    /\ Given(query.extract_status) => r.extract_status = query.extract_status
    /\ Given(query.q) => \/ Substring(Chars(query.q), Chars(r.filename))
                          \/ Substring(Chars(query.q), HexChars(r.file_id))
                          \/ Substring(Chars(query.q), HexChars(r.sha256))

\* C26: list returns exactly the caller's non-tombstoned records that
\* satisfy every supplied filter (session_id, mime and extract_status by
\* equality, q as a substring of filename, file_id or sha256), newest first,
\* cut at clamp(limit, 1, 200) (50 when absent).
C26_ListIsExact ==
    (resp.op = "search" /\ resp.status = "ok")
    => ListsFirst(resp.data.items,
                  { r \in files : /\ r.tenant_id = resp.tenant_id
                                  /\ r.deleted_at_ms = NoTime
                                  /\ Satisfies(r, resp.req) },
                  LimitOf(resp.req.limit, DefaultSearchLimit), Desc)

\* C27: a successful set_annotations on a live record overwrites its
\* annotations with the value given and sets its extract_updated_at_ms to
\* the current time; extract_status, extract_attempt, extract_error and
\* every other column of the row, and every other row, stay as they were.
C27_AnnotationsStep ==
    \A k \in WriterKeys, value \in {"a1", Null} :
       (/\ resp'.op = "annotations"
        /\ resp'.status = "ok"
        /\ UpsertAnnotations(k, IdA, value, Null))
       => \E r \in LiveRows(KeyTenant(k), IdA) :
             \E r2 \in files' :
                /\ files' = (files \ {r}) \cup {r2}
                /\ r2.annotations_json # Null
                /\ FromJson(r2.annotations_json) = value
                /\ r2.extract_updated_at_ms = now
                /\ r = [r2 EXCEPT !.annotations_json = r.annotations_json,
                                  !.extract_updated_at_ms = r.extract_updated_at_ms]

C27_AnnotationsFrame == [][C27_AnnotationsStep]_vars

\* annotations written, later than the ingest, on a record whose extraction
\* has failed once, while another tenant holds a record too
C27_Witness ==
    /\ resp.op = "annotations"
    /\ resp.status = "ok"
    /\ \E r \in LiveRows(resp.tenant_id, resp.file_id) :
          /\ r.annotations_json = ToJson("a1")
          /\ r.extract_updated_at_ms = now
          /\ r.created_at_ms < now
          /\ r.extract_status = "failed"
          /\ r.extract_attempt = 1
          /\ r.extract_error = "boom"
    /\ \E r \in files : r.tenant_id # resp.tenant_id

\* C28: a download or a public download of a live record whose storage_path
\* names no file on disk is answered NotFound, not with an internal error.
C28_MissingBlobIsNotFound ==
    (/\ resp.op \in {"download", "public_download"}
     /\ \E r \in LiveRows(resp.tenant_id, resp.file_id) :
           r.storage_path \notin DOMAIN objects)
    => /\ resp.status = "NotFound"
       /\ StatusCode(resp.status) = 404

\* a good token presented for a live, encrypted record whose container is
\* gone from the disk
C28_Witness ==
    /\ resp.op = "public_download"
    /\ resp.status = "NotFound"
    /\ VerifyToken(signing_key, resp.req, now).ok
    /\ \E r \in LiveRows(resp.tenant_id, resp.file_id) :
          /\ r.encrypted
          /\ r.storage_path \notin DOMAIN objects

\* the ingest in slot i has renamed its temp file to the plaintext path and
\* has not yet deleted the plaintext
BetweenRenameAndDelete(i) ==
    master_key /\ ing[i].pc \in {"encrypt_open", "encrypt_copy", "remove_plain"}

\* C29: the row of an ingest is committed only when the blob at its
\* storage_path is complete (there, whole, in the form the encrypted flag
\* names, holding the bytes of the row's sha256 and size); and when the
\* process dies while an encrypting ingest is between its rename and the
\* deletion of the plaintext, the plaintext blob is left under objects/ and
\* no row is committed.
C29_PublishThenCommitStep ==
    /\ \A r2 \in files' :
          (\A r \in files : r.rowid # r2.rowid)
          => /\ r2.storage_path \in DOMAIN objects'
             /\ objects'[r2.storage_path].whole
             /\ objects'[r2.storage_path].age = r2.encrypted
             /\ Sha256Hex(objects'[r2.storage_path].data) = r2.sha256
             /\ Len(objects'[r2.storage_path].data) = r2.size
    /\ \A i \in Slots :
          (BetweenRenameAndDelete(i) /\ Crash)
          => /\ PlainPath(ing[i].tenant_id, ing[i].file_id) \in DOMAIN objects'
             /\ files' = files

C29_PublishThenCommit == [][C29_PublishThenCommitStep]_vars

\* the worker holds a chunk it has read and the channel has no room for it
WorkerBlocked ==
    /\ stream.pc = "send"
    /\ stream.rx
    /\ Len(stream.chan) = ChannelCapacity

\* C30: the channel between the decrypt worker and the response body never
\* holds more than 8 items, and while it holds 8 the worker, with a chunk in
\* hand, neither sends it nor reads another one: it stays where it is until
\* the body takes an item or the receiver is dropped.
C30_ChannelStep ==
    /\ Len(stream'.chan) <= ChannelCapacity
    /\ WorkerBlocked
       => \/ stream' = stream
          \/ stream' = [stream EXCEPT !.chan = Tail(@),
                                       !.body = Append(@, Head(stream.chan))]
          \/ stream' = [stream EXCEPT !.rx = FALSE, !.chan = << >>]

C30_ChannelIsBounded == [][C30_ChannelStep]_vars

\* the channel is full and the worker waits with a chunk in hand
C30_Witness ==
    /\ WorkerBlocked
    /\ stream.left = MaxChunks - ChannelCapacity - 1
    /\ \A i \in DOMAIN stream.chan : stream.chan[i] = OkChunk(i)

\* the decrypt worker is running; it has returned
WorkerRunning == stream.pc \in {"open", "read", "send", "fail"}
WorkerExited == stream.pc \in {"done", "idle"}

\* C31: the decrypt worker returns only after end of input, after an error
\* of its closure, or at a send with the receiver dropped; a send it makes
\* with the receiver dropped is its last step, and from the drop on nothing
\* is put on the channel.
C31_ExitStep ==
    /\ (WorkerRunning /\ stream'.pc = "done")
       => \/ stream.pc = "read" /\ stream.left = 0 /\ ~stream.bad
          \/ stream.pc = "fail"
          \/ stream.pc = "send" /\ ~stream.rx
    /\ (stream.pc = "send" /\ ~stream.rx /\ stream' # stream)
       => /\ stream'.pc = "done"
          /\ stream'.left = stream.left
    /\ ~stream.rx => stream'.chan = << >>

\* C31: ... and, with a response body that takes the items waiting for it
\* or is dropped, a worker that was started always returns.
C31_WorkerTerminates ==
    /\ [][C31_ExitStep]_vars
    /\ WorkerRunning ~> WorkerExited

\* the worker has returned at a send that failed, with input left to read
C31_Witness ==
    /\ stream.pc = "done"
    /\ ~stream.rx
    /\ stream.left > 0
    /\ stream.pos > 0

\* what the worker has placed on the channel of a connected client, in
\* order: the items the body has taken and the items still waiting
Placed == stream.body \o stream.chan

\* the body of a connected client has taken everything a worker that
\* failed has placed
FailedAndDrained ==
    /\ stream.rx
    /\ stream.bad
    /\ stream.pc = "done"
    /\ stream.chan = << >>

\* C32: every item the worker places is the next chunk of the plaintext,
\* except an error, which is placed once, as the last item, by a worker that
\* has then returned; so the body a connected client has read when a failed
\* worker is done is the chunks read before the error, in order, and then
\* the error.
C32_ErrorIsLast ==
    /\ stream.rx
       => \A i \in DOMAIN Placed :
             \/ Placed[i] = OkChunk(i)
             \/ /\ Placed[i] = ErrItem
                /\ i = Len(Placed)
                /\ stream.pc = "done"
                /\ stream.bad
    /\ FailedAndDrained
       => /\ Len(stream.body) = stream.pos + 1
          /\ stream.body[stream.pos + 1] = ErrItem
          /\ \A i \in 1 .. stream.pos : stream.body[i] = OkChunk(i)

\* a connected client has read two chunks and then the error
C32_Witness ==
    /\ FailedAndDrained
    /\ stream.body = << OkChunk(1), OkChunk(2), ErrItem >>

\* the operations addressed by file_id
ById == {"meta", "download", "link", "annotations", "extract_status", "tombstone"}

\* the tenant a hint names: the hint trimmed, "default" when absent or blank
HintTenant(hint) == IF Given(hint) THEN Trim(hint) ELSE "default"

\* a live row of a tenant other than "default"
HintedRows == { r \in files : r.deleted_at_ms = NoTime /\ r.tenant_id # "default" }

C33_OpenStep(ops) ==
    /\ resp'.op \in ById => resp'.tenant_id = "default"
    /\ resp'.op = "search"
       => \A k \in OpenKeys, hint \in OpenHints :
             Search(k, hint, SearchQuery(Null, Null, Null, NoInt))
             => resp'.tenant_id = HintTenant(hint)
    /\ resp'.op = "pending_extract"
       => \A k \in OpenKeys, hint \in OpenHints :
             PendingExtract(k, hint, NoInt) => resp'.tenant_id = HintTenant(hint)
    /\ \A r2 \in files' \ files :
          r2.tenant_id = IF r2.file_id = IdB THEN HintTenant(BodyB.tenant_id)
                         ELSE HintTenant(BodyA.tenant_id)
    /\ \A r \in HintedRows :
          /\ (resp'.op = "search" /\ resp'.tenant_id = r.tenant_id)
             => FileMeta(r) \in Range(resp'.data.items)
          /\ (resp'.op \in ops /\ resp'.file_id = r.file_id)
             => resp'.status = "NotFound"

\* C33: with auth disabled every operation addressed by file_id acts for
\* tenant "default" whatever key the caller sends, while ingest, list and
\* pending_extract act for the tenant the hint names; so a live file of a
\* hinted tenant is in that tenant's list and every operation addressed by
\* its file_id answers NotFound.
C33_OpenTenant == [][C33_OpenStep(ById)]_vars

\* the plaintext blobs under objects/
PlainBlobs == { path \in DOMAIN objects : path[4] = "" }

\* C34: with a master key configured, when no ingest is in progress -
\* each one has answered, failed or been dropped with its client - every
\* file under objects/ is an .age file.
C34_NoPlaintextAtRest == (master_key /\ InFlight = {}) => PlainBlobs = {}

\* the extraction columns of a row
ExtractionColumns(r) ==
    << r.annotations_json, r.extract_status, r.extract_attempt, r.extract_error,
       r.extract_updated_at_ms >>

\* the latest step answered a set_annotations or set_extract_status that
\* passed the role gate and named a record its tenant has tombstoned
AimedAtTombstoned ==
    /\ resp'.op \in {"annotations", "extract_status"}
    /\ resp'.status \notin {"Unauthorized", "Forbidden"}
    /\ Tombstoned(resp'.tenant_id, resp'.file_id)

\* C35: a tombstoned row keeps its extraction columns through every step,
\* and a set_annotations or set_extract_status aimed at it changes no row
\* and answers NotFound.
C35_FrozenStep ==
    /\ \A r \in files :
          r.deleted_at_ms # NoTime
          => \E r2 \in files' : /\ r2.rowid = r.rowid
                                /\ ExtractionColumns(r2) = ExtractionColumns(r)
    /\ AimedAtTombstoned
       => /\ resp'.status = "NotFound"
          /\ files' = files

C35_TombstonedIsFrozen == [][C35_FrozenStep]_vars

\* a record whose extraction state was written was tombstoned, and a later
\* set_extract_status aimed at it has been refused
C35_Witness ==
    /\ resp.op = "extract_status"
    /\ resp.status = "NotFound"
    /\ \E r \in files : /\ r.tenant_id = resp.tenant_id
                        /\ r.file_id = resp.file_id
                        /\ r.deleted_at_ms # NoTime
                        /\ r.deleted_at_ms < now
                        /\ r.extract_attempt > 0
                        /\ r.annotations_json # Null

\* every operation that answers with a status
AllOps ==
    ById \cup {"ingest", "search", "pending_extract", "public_download"}

\* the latest step answered one of ops with Unauthorized or Forbidden and
\* wrote nothing under the data directory
C36_RejectedStep(ops) ==
    (resp'.op \in ops /\ resp'.status \in {"Unauthorized", "Forbidden"})
    => /\ tmp_left' = << >>
       /\ objects' = objects
       /\ files' = files
       /\ audit_tail' = << >>

====
